---- MODULE Spec2Model ----
(***************************************************************************)
(* Model of the signal aggregation and decision core of the stock trading  *)
(* analysis program (python/decision_engine.py) and of the pipeline that   *)
(* drives it (python/main.py).                                             *)
(*                                                                         *)
(* Python floats are IEEE-754 binary64 values.  They are modelled exactly: *)
(* a float is a sign, a 53-bit significand and a binary exponent, and each *)
(* arithmetic operation rounds its exact result to nearest, ties to even.  *)
(* Significands do not fit TLC's integers, so naturals are kept as         *)
(* little-endian sequences of limbs in base 2^15.                          *)
(***************************************************************************)
EXTENDS Integers, Sequences, FiniteSets, TLC

(***************************************************************************)
(* Arbitrary-precision naturals: <<>> is 0, no high zero limb.             *)
(***************************************************************************)
LimbBits == 15
LimbBase == 32768

RECURSIVE NatTrim(_)
NatTrim(a) ==
    IF a = <<>> THEN <<>>
    ELSE IF a[Len(a)] = 0 THEN NatTrim(SubSeq(a, 1, Len(a) - 1))
    ELSE a

RECURSIVE NatFromInt(_)
NatFromInt(n) ==
    IF n = 0 THEN <<>>
    ELSE <<n % LimbBase>> \o NatFromInt(n \div LimbBase)

RECURSIVE NatToInt(_)
NatToInt(a) ==
    IF a = <<>> THEN 0
    ELSE a[1] + LimbBase * NatToInt(Tail(a))

NatLimb(a, i) == IF i <= Len(a) THEN a[i] ELSE 0

RECURSIVE NatAddC(_, _, _)
NatAddC(a, b, carry) ==
    IF a = <<>> /\ b = <<>>
    THEN (IF carry = 0 THEN <<>> ELSE <<carry>>)
    ELSE LET s == NatLimb(a, 1) + NatLimb(b, 1) + carry
         IN  <<s % LimbBase>>
             \o NatAddC(IF a = <<>> THEN <<>> ELSE Tail(a),
                        IF b = <<>> THEN <<>> ELSE Tail(b),
                        s \div LimbBase)

NatAdd(a, b) == NatAddC(a, b, 0)

\* a - b for a >= b
RECURSIVE NatSubB(_, _, _)
NatSubB(a, b, borrow) ==
    IF a = <<>> THEN <<>>
    ELSE LET d == a[1] - NatLimb(b, 1) - borrow
         IN  <<d % LimbBase>>
             \o NatSubB(Tail(a),
                        IF b = <<>> THEN <<>> ELSE Tail(b),
                        IF d < 0 THEN 1 ELSE 0)

NatSub(a, b) == NatTrim(NatSubB(a, b, 0))

\* -1, 0, 1 as a < b, a = b, a > b (both trimmed)
RECURSIVE NatCmpFrom(_, _, _)
NatCmpFrom(a, b, i) ==
    IF i = 0 THEN 0
    ELSE IF a[i] < b[i] THEN -1
    ELSE IF a[i] > b[i] THEN 1
    ELSE NatCmpFrom(a, b, i - 1)

NatCmp(a, b) ==
    IF Len(a) < Len(b) THEN -1
    ELSE IF Len(a) > Len(b) THEN 1
    ELSE NatCmpFrom(a, b, Len(a))

\* a * k for 0 <= k < LimbBase
RECURSIVE NatMulSmallC(_, _, _)
NatMulSmallC(a, k, carry) ==
    IF a = <<>>
    THEN (IF carry = 0 THEN <<>> ELSE <<carry>>)
    ELSE LET p == a[1] * k + carry
         IN  <<p % LimbBase>> \o NatMulSmallC(Tail(a), k, p \div LimbBase)

NatMulSmall(a, k) == IF k = 0 THEN <<>> ELSE NatMulSmallC(a, k, 0)

NatShiftLimbs(a, n) ==
    IF a = <<>> THEN <<>> ELSE [i \in 1..n |-> 0] \o a

RECURSIVE NatMul(_, _)
NatMul(a, b) ==
    IF b = <<>> THEN <<>>
    ELSE NatAdd(NatMulSmall(a, b[1]), NatShiftLimbs(NatMul(a, Tail(b)), 1))

\* <<floor(a / k), a mod k>> for 0 < k < LimbBase, computed from the top limb
RECURSIVE NatDivSmallFrom(_, _, _, _)
NatDivSmallFrom(a, k, i, rem) ==
    IF i = 0 THEN <<<<>>, rem>>
    ELSE LET cur  == rem * LimbBase + a[i]
             rest == NatDivSmallFrom(a, k, i - 1, cur % k)
         IN  <<rest[1] \o <<cur \div k>>, rest[2]>>

NatDivSmall(a, k) ==
    LET r == NatDivSmallFrom(a, k, Len(a), 0)
    IN  <<NatTrim(r[1]), r[2]>>

\* a * 2^n
NatShl(a, n) ==
    NatShiftLimbs(NatMulSmall(a, 2^(n % LimbBits)), n \div LimbBits)

\* floor(a / 2^n)
NatShr(a, n) ==
    LET drop == n \div LimbBits
    IN  IF drop >= Len(a) THEN <<>>
        ELSE NatDivSmall(SubSeq(a, drop + 1, Len(a)), 2^(n % LimbBits))[1]

RECURSIVE IntBitLen(_)
IntBitLen(n) == IF n = 0 THEN 0 ELSE 1 + IntBitLen(n \div 2)

NatBitLen(a) ==
    IF a = <<>> THEN 0
    ELSE (Len(a) - 1) * LimbBits + IntBitLen(a[Len(a)])

NatIsOdd(a) == a # <<>> /\ a[1] % 2 = 1

\* round-half-even of a / 2^n, for n >= 0
NatShrRound(a, n) ==
    IF n = 0 THEN a
    ELSE LET q    == NatShr(a, n)
             r    == NatSub(a, NatShl(q, n))
             half == NatShl(<<1>>, n - 1)
             c    == NatCmp(r, half)
         IN  IF c > 0 \/ (c = 0 /\ NatIsOdd(q)) THEN NatAdd(q, <<1>>) ELSE q

(***************************************************************************)
(* Python float (IEEE-754 binary64).  A float is [neg, man, exp] with      *)
(* value (-1)^neg * man * 2^exp; man is 0 (with exp 0) or has exactly      *)
(* MantBits bits, so equal records are equal values (apart from -0.0).     *)
(* The exponents of this program stay far inside the normal range.         *)
(***************************************************************************)
MantBits == 53

FZero(neg) == [neg |-> neg, man |-> <<>>, exp |-> 0]

FIsZero(x) == x.man = <<>>

\* the float nearest to (-1)^neg * m * 2^e, ties to even
FRound(neg, m, e) ==
    IF m = <<>> THEN FZero(neg)
    ELSE LET len == NatBitLen(m)
         IN  IF len <= MantBits
             THEN [neg |-> neg, man |-> NatShl(m, MantBits - len),
                   exp |-> e - (MantBits - len)]
             ELSE LET sh == len - MantBits
                      q  == NatShrRound(m, sh)
                  IN  IF NatBitLen(q) > MantBits
                      THEN [neg |-> neg, man |-> NatShr(q, 1), exp |-> e + sh + 1]
                      ELSE [neg |-> neg, man |-> q, exp |-> e + sh]

\* limbs of quotient kept below the binary point, before the sticky bit
DivGuardLimbs == 5

\* k more quotient bits of rem / d: <<bits as an integer, remainder>>
RECURSIVE DivBits(_, _, _, _)
DivBits(rem, d, k, acc) ==
    IF k = 0 THEN <<acc, rem>>
    ELSE LET r2 == 2 * rem
         IN  IF r2 >= d THEN DivBits(r2 - d, d, k - 1, 2 * acc + 1)
             ELSE DivBits(r2, d, k - 1, 2 * acc)

\* nl more quotient limbs of rem / d: <<limbs, remainder>>
RECURSIVE DivFrac(_, _, _)
DivFrac(rem, d, nl) ==
    IF nl = 0 THEN <<<<>>, rem>>
    ELSE LET hi   == IF d <= LimbBase
                     THEN <<(rem * LimbBase) \div d, (rem * LimbBase) % d>>
                     ELSE DivBits(rem, d, LimbBits, 0)
             rest == DivFrac(hi[2], d, nl - 1)
         IN  <<rest[1] \o <<hi[1]>>, rest[2]>>

\* int / int (true division), also the value of a decimal literal n/d:
\* the float nearest to the exact quotient
FDivInt(n, d) ==
    IF n = 0 THEN FZero(FALSE)
    ELSE LET neg == (n < 0) # (d < 0)
             an  == IF n < 0 THEN -n ELSE n
             ad  == IF d < 0 THEN -d ELSE d
             fr  == DivFrac(an % ad, ad, DivGuardLimbs)
             q   == NatTrim(fr[1] \o NatFromInt(an \div ad))
             m   == IF fr[2] = 0 THEN NatShl(q, 1)
                    ELSE NatAdd(NatShl(q, 1), <<1>>)
         IN  FRound(neg, m, -(DivGuardLimbs * LimbBits + 1))

FFromInt(n) == FDivInt(n, 1)

FNeg(x) == [x EXCEPT !.neg = ~x.neg]

\* -1, 0, 1 as |x| < |y|, |x| = |y|, |x| > |y|
FCmpAbs(x, y) ==
    IF FIsZero(x) THEN (IF FIsZero(y) THEN 0 ELSE -1)
    ELSE IF FIsZero(y) THEN 1
    ELSE IF x.exp < y.exp THEN -1
    ELSE IF x.exp > y.exp THEN 1
    ELSE NatCmp(x.man, y.man)

\* -1, 0, 1 as x < y, x == y, x > y (-0.0 == 0.0)
FCmp(x, y) ==
    IF FIsZero(x) /\ FIsZero(y) THEN 0
    ELSE IF x.neg /\ ~y.neg THEN -1
    ELSE IF ~x.neg /\ y.neg THEN 1
    ELSE IF x.neg THEN -FCmpAbs(x, y)
    ELSE FCmpAbs(x, y)

FGe(x, y) == FCmp(x, y) >= 0
FGt(x, y) == FCmp(x, y) > 0
FLe(x, y) == FCmp(x, y) <= 0
FLt(x, y) == FCmp(x, y) < 0
FEq(x, y) == FCmp(x, y) = 0

FMul(x, y) ==
    IF FIsZero(x) \/ FIsZero(y) THEN FZero(x.neg # y.neg)
    ELSE FRound(x.neg # y.neg, NatMul(x.man, y.man), x.exp + y.exp)

FAdd(x, y) ==
    IF FIsZero(x) /\ FIsZero(y) THEN FZero(x.neg /\ y.neg)
    ELSE IF FIsZero(x) THEN y
    ELSE IF FIsZero(y) THEN x
    ELSE LET e == IF x.exp < y.exp THEN x.exp ELSE y.exp
             a == NatShl(x.man, x.exp - e)
             b == NatShl(y.man, y.exp - e)
             c == NatCmp(a, b)
         IN  IF x.neg = y.neg THEN FRound(x.neg, NatAdd(a, b), e)
             ELSE IF c = 0 THEN FZero(FALSE)
             ELSE IF c > 0 THEN FRound(x.neg, NatSub(a, b), e)
             ELSE FRound(y.neg, NatSub(b, a), e)

\* the digits truncated instead of rounded
FHundredths_truncated(x) ==
    IF FIsZero(x) THEN 0
    ELSE LET m == NatMulSmall(x.man, 100)
         IN  IF x.exp >= 0 THEN NatToInt(NatShl(m, x.exp))
             ELSE NatToInt(NatShr(m, -x.exp))

\* |x| * 100 rounded half-even to an integer: the digits of round(x, 2)
\* and of format(x, ".2f")
FHundredths(x) ==
    IF FIsZero(x) THEN 0
    ELSE LET m == NatMulSmall(x.man, 100)
         IN  IF x.exp >= 0 THEN NatToInt(NatShl(m, x.exp))
             ELSE NatToInt(NatShrRound(m, -x.exp))

\* round(x, 2): the float nearest to the correctly rounded 2-digit decimal
Round2(x) ==
    LET h == FHundredths(x)
    IN  IF h = 0 THEN FZero(x.neg)
        ELSE FDivInt(IF x.neg THEN -h ELSE h, 100)

\* format(x, "+.2f"): sign always shown, two decimals
FormatSigned2(x) ==
    LET h == FHundredths(x)
    IN  (IF x.neg THEN "-" ELSE "+") \o ToString(h \div 100) \o "."
        \o ToString((h % 100) \div 10) \o ToString(h % 10)

(***************************************************************************)
(* Python values shared by the components.  A str used as a signal key is  *)
(* a sequence of characters; a dict is the sequence of its items in        *)
(* insertion order, each item [key, value]; a raised exception is the      *)
(* record [exc |-> name].                                                  *)
(***************************************************************************)
Exc(name) == [exc |-> name]

IsExc(v) == "exc" \in DOMAIN v

\* int / int raises ZeroDivisionError on a zero divisor
PyTrueDiv(n, d) == IF d = 0 THEN Exc("ZeroDivisionError") ELSE FDivInt(n, d)

\* str.startswith / str.endswith
StartsWith(str, prefix) ==
    /\ Len(prefix) <= Len(str)
    /\ SubSeq(str, 1, Len(prefix)) = prefix

EndsWith(str, suffix) ==
    /\ Len(suffix) <= Len(str)
    /\ SubSeq(str, Len(str) - Len(suffix) + 1, Len(str)) = suffix

DictKeys(d) == {d[i].key : i \in 1..Len(d)}

\* d[key] = value: replaces the value in place, or appends a new item
DictSet(d, key, value) ==
    IF key \in DictKeys(d)
    THEN [i \in 1..Len(d) |->
            IF d[i].key = key THEN [key |-> key, value |-> value] ELSE d[i]]
    ELSE Append(d, [key |-> key, value |-> value])

\* the (direction, reason) tuple of a signal
Signal(direction, reason) == <<direction, reason>>

Bullish == "Bullish"
Bearish == "Bearish"
Neutral == "Neutral"
Directions == {Bullish, Bearish, Neutral}

\* the aggregate keys written by the three collaborators
Key_TA_Overall   == <<"_", "T", "A", "_", "O", "v", "e", "r", "a", "l", "l">>
Key_FA_Overall   == <<"_", "F", "A", "_", "O", "v", "e", "r", "a", "l", "l">>
Key_News_Overall == <<"_", "N", "e", "w", "s", "_", "O", "v", "e", "r", "a", "l", "l">>

(***************************************************************************)
(* DecisionEngine (python/decision_engine.py)                              *)
(***************************************************************************)
\* float literals of the module
Lit_0_40 == FDivInt(40, 100)
Lit_0_35 == FDivInt(35, 100)
Lit_0_25 == FDivInt(25, 100)
Lit_0_4  == FDivInt(4, 10)
Lit_0_15 == FDivInt(15, 100)
Lit_0_0  == FZero(FALSE)
Lit_1_0  == FFromInt(1)

\* the class attribute with a news weight of 0.30
WEIGHTS_Initial_heavy_news ==
    [k \in {"technical", "fundamental", "news"} |->
        IF k = "technical" THEN Lit_0_40
        ELSE IF k = "fundamental" THEN Lit_0_35
        ELSE FDivInt(30, 100)]

\* the class attribute DecisionEngine.WEIGHTS as the class body creates it
WEIGHTS_Initial ==
    [k \in {"technical", "fundamental", "news"} |->
        IF k = "technical" THEN Lit_0_40
        ELSE IF k = "fundamental" THEN Lit_0_35
        ELSE Lit_0_25]

\* the loop with Neutral entries left out of the denominator
RECURSIVE category_score_loop_skip_neutral(_, _, _, _)
category_score_loop_skip_neutral(signals, i, total, count) ==
    IF i > Len(signals) THEN [total |-> total, count |-> count]
    ELSE LET key       == signals[i].key
             direction == signals[i].value[1]
         IN  IF StartsWith(key, <<"_">>)
                /\ EndsWith(key, <<"O", "v", "e", "r", "a", "l", "l">>)
             THEN category_score_loop_skip_neutral(signals, i + 1, total, count)
             ELSE IF direction = "Bullish"
             THEN category_score_loop_skip_neutral(signals, i + 1,
                                                   total + 1, count + 1)
             ELSE IF direction = "Bearish"
             THEN category_score_loop_skip_neutral(signals, i + 1,
                                                   total - 1, count + 1)
             ELSE category_score_loop_skip_neutral(signals, i + 1, total, count)

\* the loop without the skip of aggregate keys
RECURSIVE category_score_loop_count_aggregates(_, _, _, _)
category_score_loop_count_aggregates(signals, i, total, count) ==
    IF i > Len(signals) THEN [total |-> total, count |-> count]
    ELSE LET direction == signals[i].value[1]
         IN  category_score_loop_count_aggregates(signals, i + 1,
                 IF direction = "Bullish" THEN total + 1
                 ELSE IF direction = "Bearish" THEN total - 1
                 ELSE total,
                 count + 1)

\* the loop with the skip placed after the update of total: an aggregate
\* entry moves total but not count
RECURSIVE category_score_loop_late_skip(_, _, _, _)
category_score_loop_late_skip(signals, i, total, count) ==
    IF i > Len(signals) THEN [total |-> total, count |-> count]
    ELSE LET key       == signals[i].key
             direction == signals[i].value[1]
             total2    == IF direction = "Bullish" THEN total + 1
                          ELSE IF direction = "Bearish" THEN total - 1
                          ELSE total
         IN  IF StartsWith(key, <<"_">>)
                /\ EndsWith(key, <<"O", "v", "e", "r", "a", "l", "l">>)
             THEN category_score_loop_late_skip(signals, i + 1, total2, count)
             ELSE category_score_loop_late_skip(signals, i + 1, total2, count + 1)

\* the loop unpacking the signal tuple as (reason, direction)
RECURSIVE category_score_loop_swapped_tuple(_, _, _, _)
category_score_loop_swapped_tuple(signals, i, total, count) ==
    IF i > Len(signals) THEN [total |-> total, count |-> count]
    ELSE LET key       == signals[i].key
             direction == signals[i].value[2]
         IN  IF StartsWith(key, <<"_">>)
                /\ EndsWith(key, <<"O", "v", "e", "r", "a", "l", "l">>)
             THEN category_score_loop_swapped_tuple(signals, i + 1, total, count)
             ELSE category_score_loop_swapped_tuple(signals, i + 1,
                      IF direction = "Bullish" THEN total + 1
                      ELSE IF direction = "Bearish" THEN total - 1
                      ELSE total,
                      count + 1)

\* the loop with break in place of continue: the entries after an
\* aggregate key are not visited
RECURSIVE category_score_loop_break(_, _, _, _)
category_score_loop_break(signals, i, total, count) ==
    IF i > Len(signals) THEN [total |-> total, count |-> count]
    ELSE LET key       == signals[i].key
             direction == signals[i].value[1]
         IN  IF StartsWith(key, <<"_">>)
                /\ EndsWith(key, <<"O", "v", "e", "r", "a", "l", "l">>)
             THEN [total |-> total, count |-> count]
             ELSE category_score_loop_break(signals, i + 1,
                      IF direction = "Bullish" THEN total + 1
                      ELSE IF direction = "Bearish" THEN total - 1
                      ELSE total,
                      count + 1)

\* the loop with "or" in place of "and": a key carrying one of the two
\* aggregate marks is skipped too
RECURSIVE category_score_loop_either_mark(_, _, _, _)
category_score_loop_either_mark(signals, i, total, count) ==
    IF i > Len(signals) THEN [total |-> total, count |-> count]
    ELSE LET key       == signals[i].key
             direction == signals[i].value[1]
         IN  IF StartsWith(key, <<"_">>)
                \/ EndsWith(key, <<"O", "v", "e", "r", "a", "l", "l">>)
             THEN category_score_loop_either_mark(signals, i + 1, total, count)
             ELSE category_score_loop_either_mark(signals, i + 1,
                      IF direction = "Bullish" THEN total + 1
                      ELSE IF direction = "Bearish" THEN total - 1
                      ELSE total,
                      count + 1)

\* the for loop of _category_score from item i on: [total, count]
RECURSIVE category_score_loop(_, _, _, _)
category_score_loop(signals, i, total, count) ==
    IF i > Len(signals) THEN [total |-> total, count |-> count]
    ELSE LET key       == signals[i].key
             direction == signals[i].value[1]
         IN  IF StartsWith(key, <<"_">>)
                /\ EndsWith(key, <<"O", "v", "e", "r", "a", "l", "l">>)
             THEN category_score_loop(signals, i + 1, total, count)
             ELSE category_score_loop(signals, i + 1,
                      IF direction = "Bullish" THEN total + 1
                      ELSE IF direction = "Bearish" THEN total - 1
                      ELSE total,
                      count + 1)

\* _category_score without its two guards against an empty count
category_score_unguarded(signals) ==
    LET r == category_score_loop(signals, 1, 0, 0)
    IN  PyTrueDiv(r.total, r.count)

category_score(signals) ==
    IF signals = <<>> THEN Lit_0_0
    ELSE LET r == category_score_loop(signals, 1, 0, 0)
         IN  IF r.count # 0 THEN PyTrueDiv(r.total, r.count) ELSE Lit_0_0

\* the one-character confidence label of HOLD, the em dash U+2014
EmDash == "U+2014"

\* _map_score with the BUY boundary made strict
map_score_strict_buy(score) ==
    IF FGe(score, Lit_0_4) THEN <<"STRONG BUY", "High">>
    ELSE IF FGt(score, Lit_0_15) THEN <<"BUY", "Moderate">>
    ELSE IF FGt(score, FNeg(Lit_0_15)) THEN <<"HOLD", EmDash>>
    ELSE IF FGt(score, FNeg(Lit_0_4)) THEN <<"SELL", "Moderate">>
    ELSE <<"STRONG SELL", "High">>

\* _map_score with the two sell labels exchanged
map_score_swapped_sell(score) ==
    IF FGe(score, Lit_0_4) THEN <<"STRONG BUY", "High">>
    ELSE IF FGe(score, Lit_0_15) THEN <<"BUY", "Moderate">>
    ELSE IF FGt(score, FNeg(Lit_0_15)) THEN <<"HOLD", EmDash>>
    ELSE IF FGt(score, FNeg(Lit_0_4)) THEN <<"STRONG SELL", "High">>
    ELSE <<"SELL", "Moderate">>

map_score(score) ==
    IF FGe(score, Lit_0_4) THEN <<"STRONG BUY", "High">>
    ELSE IF FGe(score, Lit_0_15) THEN <<"BUY", "Moderate">>
    ELSE IF FGt(score, FNeg(Lit_0_15)) THEN <<"HOLD", EmDash>>
    ELSE IF FGt(score, FNeg(Lit_0_4)) THEN <<"SELL", "Moderate">>
    ELSE <<"STRONG SELL", "High">>

RECURSIVE JoinLines(_)
JoinLines(parts) ==
    IF parts = <<>> THEN ""
    ELSE IF Len(parts) = 1 THEN parts[1]
    ELSE parts[1] \o "\n" \o JoinLines(Tail(parts))

\* _explain with the weights of the first two lines exchanged
explain_exchanged_weights(ta, fa, news, weighted, rec) ==
    JoinLines(<<
        "Technical analysis score: " \o FormatSigned2(ta) \o " (weight 35%)",
        "Fundamental analysis score: " \o FormatSigned2(fa) \o " (weight 40%)",
        "News sentiment score: " \o FormatSigned2(news) \o " (weight 25%)",
        "Combined weighted score: " \o FormatSigned2(weighted),
        "Recommendation: " \o rec,
        "",
        "Score interpretation: -1.0 (Strong Sell) to +1.0 (Strong Buy)",
        "  >= +0.40  STRONG BUY  | >= +0.15  BUY  | -0.15 to +0.15  HOLD",
        "  <= -0.15  SELL        | <= -0.40  STRONG SELL">>)

explain(ta, fa, news, weighted, rec) ==
    JoinLines(<<
        "Technical analysis score: " \o FormatSigned2(ta) \o " (weight 40%)",
        "Fundamental analysis score: " \o FormatSigned2(fa) \o " (weight 35%)",
        "News sentiment score: " \o FormatSigned2(news) \o " (weight 25%)",
        "Combined weighted score: " \o FormatSigned2(weighted),
        "Recommendation: " \o rec,
        "",
        "Score interpretation: -1.0 (Strong Sell) to +1.0 (Strong Buy)",
        "  >= +0.40  STRONG BUY  | >= +0.15  BUY  | -0.15 to +0.15  HOLD",
        "  <= -0.15  SELL        | <= -0.40  STRONG SELL">>)

\* dict.get(key, default) on a result dict, a function from its keys
DictGet(d, key, default) == IF key \in DOMAIN d THEN d[key] ELSE default

\* the object a Decision's "weights" entry refers to: the class attribute
\* itself, not a copy
WeightsRef == "DecisionEngine.WEIGHTS"

\* decide() weighting the news score with the fundamental weight
decide_locals_wrong_weight(self, W) ==
    LET ta_score   == category_score(DictGet(self.ta, "signals", <<>>))
        fa_score   == category_score(DictGet(self.fa, "signals", <<>>))
        news_score == category_score(DictGet(self.news, "signals", <<>>))
    IN  IF IsExc(ta_score) THEN ta_score
        ELSE IF IsExc(fa_score) THEN fa_score
        ELSE IF IsExc(news_score) THEN news_score
        ELSE LET weighted == FAdd(FAdd(FMul(ta_score, W["technical"]),
                                       FMul(fa_score, W["fundamental"])),
                                  FMul(news_score, W["fundamental"]))
                 mapped   == map_score(weighted)
             IN  [ta_score |-> ta_score, fa_score |-> fa_score,
                  news_score |-> news_score, weighted |-> weighted,
                  recommendation |-> mapped[1], confidence |-> mapped[2]]

\* the local variables of decide() at its return statement, or the
\* exception a scorer call raised; self is the engine, W the class attribute
decide_locals(self, W) ==
    LET ta_score   == category_score(DictGet(self.ta, "signals", <<>>))
        fa_score   == category_score(DictGet(self.fa, "signals", <<>>))
        news_score == category_score(DictGet(self.news, "signals", <<>>))
    IN  IF IsExc(ta_score) THEN ta_score
        ELSE IF IsExc(fa_score) THEN fa_score
        ELSE IF IsExc(news_score) THEN news_score
        ELSE LET weighted == FAdd(FAdd(FMul(ta_score, W["technical"]),
                                       FMul(fa_score, W["fundamental"])),
                                  FMul(news_score, W["news"]))
                 mapped   == map_score(weighted)
             IN  [ta_score |-> ta_score, fa_score |-> fa_score,
                  news_score |-> news_score, weighted |-> weighted,
                  recommendation |-> mapped[1], confidence |-> mapped[2]]

\* the dict decide() returns with the scores left unrounded
decide_result_raw_scores(l) ==
    IF IsExc(l) THEN l
    ELSE [scores |->
            [k \in {"Technical Score", "Fundamental Score",
                    "News Score", "Weighted Score"} |->
                IF k = "Technical Score" THEN l.ta_score
                ELSE IF k = "Fundamental Score" THEN l.fa_score
                ELSE IF k = "News Score" THEN l.news_score
                ELSE l.weighted],
          weights |-> WeightsRef,
          recommendation |-> l.recommendation,
          confidence |-> l.confidence,
          explanation |-> explain(l.ta_score, l.fa_score, l.news_score,
                                  l.weighted, l.recommendation)]

\* the dict decide() returns, built from its locals
decide_result(l) ==
    IF IsExc(l) THEN l
    ELSE [scores |->
            [k \in {"Technical Score", "Fundamental Score",
                    "News Score", "Weighted Score"} |->
                IF k = "Technical Score" THEN Round2(l.ta_score)
                ELSE IF k = "Fundamental Score" THEN Round2(l.fa_score)
                ELSE IF k = "News Score" THEN Round2(l.news_score)
                ELSE Round2(l.weighted)],
          weights |-> WeightsRef,
          recommendation |-> l.recommendation,
          confidence |-> l.confidence,
          explanation |-> explain(l.ta_score, l.fa_score, l.news_score,
                                  l.weighted, l.recommendation)]

decide(self, W) == decide_result(decide_locals(self, W))

(***************************************************************************)
(* Bounded inputs.                                                         *)
(***************************************************************************)
MaxSignals == 5     \* entries of the three SignalSets of a run, together
MaxCalls == 2       \* decide() calls, over all engines
MaxEntries == 3     \* entries of the SignalSet handed to the scorer alone
MaxScorerCalls == 2 \* scorer calls on that SignalSet
MaxMicro == 1       \* millionths around each hundredth handed to _map_score
MaxMapHundredths == 100 \* hundredths handed to _map_score, either sign

Reasons == {"r"}

Item(key, direction, reason) ==
    [key |-> key, value |-> Signal(direction, reason)]

\* the dicts holding entries for the first 0..n keys of keys, in order
RECURSIVE PrefixSignalSets(_, _)
PrefixSignalSets(keys, n) ==
    IF n = 0 THEN {<<>>}
    ELSE LET shorter == PrefixSignalSets(keys, n - 1)
         IN  shorter \cup
             {Append(d, Item(keys[n], dir, r)) :
                d \in {x \in shorter : Len(x) = n - 1},
                dir \in Directions, r \in Reasons}

\* the leaf keys of the three categories
TAKeys   == <<<<"A">>, <<"B">>, <<"C">>>>
FAKeys   == <<<<"D">>, <<"E">>>>
NewsKeys == <<<<"N">>>>

TAResults == {[signals |-> d] : d \in PrefixSignalSets(TAKeys, Len(TAKeys))}
FAResults == {[signals |-> d] : d \in PrefixSignalSets(FAKeys, Len(FAKeys))}

\* the news result: no "signals" entry, leaf entries only, or the single
\* aggregate entry the news collaborator writes
NewsResults ==
    {<<>>}
    \cup {[signals |-> d] : d \in PrefixSignalSets(NewsKeys, Len(NewsKeys))}
    \cup {[signals |-> d] : d \in PrefixSignalSets(<<Key_News_Overall>>, 1)}

EntryCount(r) ==
    Len(DictGet(r.ta_result, "signals", <<>>))
    + Len(DictGet(r.fa_result, "signals", <<>>))
    + Len(DictGet(r.news_result, "signals", <<>>))

\* the results main() may hold when it builds the engine
PipelineInputs ==
    {r \in [ta_result : TAResults, fa_result : FAResults,
            news_result : NewsResults] : EntryCount(r) <= MaxSignals}

\* keys handed to the scorer alone: a leaf, a collaborator's aggregate key,
\* and two keys that carry only one of the two aggregate marks
ScorerKeys ==
    {<<"A">>, Key_TA_Overall,
     <<"T", "A", "_", "O", "v", "e", "r", "a", "l", "l">>,
     <<"_", "M", "o", "m", "e", "n", "t", "u", "m">>}

\* every dict of at most max entries over keys, in every insertion order
RECURSIVE AllSignalSets(_, _)
AllSignalSets(keys, max) ==
    IF max = 0 THEN {<<>>}
    ELSE LET shorter == AllSignalSets(keys, max - 1)
         IN  shorter \cup
             {Append(d, Item(k, dir, r)) :
                d \in {x \in shorter : Len(x) = max - 1},
                k \in keys, dir \in Directions, r \in Reasons}

UniqueKeys(d) == \A i, j \in 1..Len(d) : d[i].key = d[j].key => i = j

ScorerInputs == {d \in AllSignalSets(ScorerKeys, MaxEntries) : UniqueKeys(d)}

\* decimal inputs of _map_score, in millionths
MapInputs ==
    {10000 * h + m : h \in -MaxMapHundredths..MaxMapHundredths,
                     m \in -MaxMicro..MaxMicro}

(***************************************************************************)
(* State.                                                                  *)
(***************************************************************************)
VARIABLES
    results,      \* main(): ta_result, fa_result, news_result
    WEIGHTS,      \* the class attribute DecisionEngine.WEIGHTS
    engine,       \* the DecisionEngine instances: self.ta, self.fa, self.news
    calls,        \* the decide() calls made: engine, locals, returned dict
    sc_signals,   \* the SignalSet a caller hands to _category_score
    sc_calls,     \* the _category_score calls made: argument and result
    sc_added,     \* the aggregate key the caller added between calls
    ms_score,     \* the decimal score, in millionths, handed to _map_score
    ms_calls,     \* the _map_score calls made: argument and result
    an_obj,       \* a collaborator instance: its input data and attributes
    an_calls,     \* the compute_all() calls made on it: what each returned
    rt_args,      \* the arguments handed to resolve_ticker
    rt_calls      \* the resolve_ticker calls made: arguments and outcome

vars == <<results, WEIGHTS, engine, calls,
          sc_signals, sc_calls, sc_added, ms_score, ms_calls,
          an_obj, an_calls, rt_args, rt_calls>>

pipeline_vars == <<results, WEIGHTS, engine, calls>>
scorer_vars   == <<sc_signals, sc_calls, sc_added>>
map_vars      == <<ms_score, ms_calls>>
analysis_vars == <<an_obj, an_calls>>
resolve_vars  == <<rt_args, rt_calls>>

NoKey == <<>>

\* the engine of main() and a second one built from the same results
Engines == {"engine", "engine2"}

\* DecisionEngine(ta_result, fa_result, news_result): the instance keeps
\* references to the three result dicts
NewEngine == [ta |-> "ta_result", fa |-> "fa_result", news |-> "news_result"]

PipelineIdle ==
    /\ results = [ta_result |-> <<>>, fa_result |-> <<>>, news_result |-> <<>>]
    /\ WEIGHTS = WEIGHTS_Initial
    /\ engine = [e \in Engines |-> NewEngine]
    /\ calls = <<>>

ScorerIdle ==
    /\ sc_signals = <<>>
    /\ sc_calls = <<>>
    /\ sc_added = NoKey

MapIdle ==
    /\ ms_score = 0
    /\ ms_calls = <<>>

\* no collaborator instance exists
NoObject == <<>>

AnalysisIdle ==
    /\ an_obj = NoObject
    /\ an_calls = <<>>

\* no resolve_ticker call is being made
NoArgs == <<>>

ResolveIdle ==
    /\ rt_args = NoArgs
    /\ rt_calls = <<>>

(***************************************************************************)
(* The pipeline: main() holds the three results and has built the engines  *)
(* from them; the engines run decide().                                    *)
(***************************************************************************)
Init ==
    /\ results \in PipelineInputs
    /\ WEIGHTS = WEIGHTS_Initial
    /\ engine = [e \in Engines |-> NewEngine]
    /\ calls = <<>>
    /\ ScorerIdle
    /\ MapIdle
    /\ AnalysisIdle
    /\ ResolveIdle

\* the instance with its references followed
Self(e) ==
    [ta |-> results[engine[e].ta], fa |-> results[engine[e].fa],
     news |-> results[engine[e].news]]

\* what one decide() call of engine e leaves: its locals l and what it returned
DecideCall(e, l) ==
    [engine |-> e, locals |-> l, result |-> decide_result(l)]

\* decide() with a scorer that pops the entries off the dicts it scores
Decide_consuming(e) ==
    /\ Len(calls) < MaxCalls
    /\ calls' = Append(calls, DecideCall(e, decide_locals(Self(e), WEIGHTS)))
    /\ results' = [r \in DOMAIN results |->
                      IF "signals" \in DOMAIN results[r]
                      THEN [results[r] EXCEPT !.signals = <<>>]
                      ELSE results[r]]
    /\ UNCHANGED <<WEIGHTS, engine, scorer_vars, map_vars,
                 analysis_vars, resolve_vars>>

\* engine e runs decide()
Decide(e) ==
    /\ Len(calls) < MaxCalls
    /\ calls' = Append(calls, DecideCall(e, decide_locals(Self(e), WEIGHTS)))
    /\ UNCHANGED <<results, WEIGHTS, engine, scorer_vars, map_vars,
                 analysis_vars, resolve_vars>>

Next == \E e \in Engines : Decide(e)

Spec == Init /\ [][Next]_vars

(***************************************************************************)
(* The Category Scorer alone: a caller scores a SignalSet, may add an      *)
(* aggregate entry to it, and scores it again.                             *)
(***************************************************************************)
InitScorer ==
    /\ sc_signals \in ScorerInputs
    /\ sc_calls = <<>>
    /\ sc_added = NoKey
    /\ PipelineIdle
    /\ MapIdle
    /\ AnalysisIdle
    /\ ResolveIdle

Score ==
    /\ Len(sc_calls) < MaxScorerCalls
    /\ sc_calls' = Append(sc_calls, [signals |-> sc_signals,
                                     score |-> category_score(sc_signals)])
    /\ UNCHANGED <<sc_signals, sc_added, pipeline_vars, map_vars,
                 analysis_vars, resolve_vars>>

\* signals[key] = (direction, reason) for an aggregate key
AddAggregate(key, direction, reason) ==
    /\ Len(sc_calls) = 1
    /\ sc_added = NoKey
    /\ sc_signals' = DictSet(sc_signals, key, Signal(direction, reason))
    /\ sc_added' = key
    /\ UNCHANGED <<sc_calls, pipeline_vars, map_vars,
                 analysis_vars, resolve_vars>>

\* the aggregate keys the collaborators reserve
AggregateKeys == {Key_TA_Overall, Key_FA_Overall, Key_News_Overall}

NextScorer ==
    \/ Score
    \/ \E key \in AggregateKeys, direction \in Directions, reason \in Reasons :
          AddAggregate(key, direction, reason)

SpecScorer == InitScorer /\ [][NextScorer]_vars

(***************************************************************************)
(* _map_score alone, on the float a decimal literal denotes.               *)
(***************************************************************************)
Millionths == 1000000

InitMap ==
    /\ ms_score \in MapInputs
    /\ ms_calls = <<>>
    /\ PipelineIdle
    /\ ScorerIdle
    /\ AnalysisIdle
    /\ ResolveIdle

MapScore ==
    /\ ms_calls = <<>>
    /\ ms_calls' = <<[score |-> ms_score,
                      result |-> map_score(FDivInt(ms_score, Millionths))]>>
    /\ UNCHANGED <<ms_score, pipeline_vars, scorer_vars,
                 analysis_vars, resolve_vars>>

NextMap == MapScore

SpecMap == InitMap /\ [][NextMap]_vars

(***************************************************************************)
(* Properties.                                                             *)
(***************************************************************************)
\* the threshold table of the specification on a decimal score, in
\* millionths
TableBand(n) ==
    IF n >= 400000 THEN <<"STRONG BUY", "High">>
    ELSE IF n >= 150000 THEN <<"BUY", "Moderate">>
    ELSE IF n > -150000 THEN <<"HOLD", EmDash>>
    ELSE IF n > -400000 THEN <<"SELL", "Moderate">>
    ELSE <<"STRONG SELL", "High">>

\* C1: _map_score returns, for every score s, the one (recommendation,
\* confidence) pair of the threshold table with its boundary inclusivity:
\* s >= 0.40 STRONG BUY/High, 0.15 <= s < 0.40 BUY/Moderate,
\* -0.15 < s < 0.15 HOLD/em dash, -0.40 < s <= -0.15 SELL/Moderate,
\* s <= -0.40 STRONG SELL/High.
C1_MapScoreTable ==
    \A i \in 1..Len(ms_calls) :
        LET n == ms_calls[i].score
            r == ms_calls[i].result
        IN  /\ r = TableBand(n)
            /\ (n = 150000 => r = <<"BUY", "Moderate">>)
            /\ (n = -150000 => r = <<"SELL", "Moderate">>)
            /\ (n = 400000 => r = <<"STRONG BUY", "High">>)
            /\ (n = -400000 => r = <<"STRONG SELL", "High">>)
            /\ (n = 399999 => r = <<"BUY", "Moderate">>)
            /\ (n = 149999 => r = <<"HOLD", EmDash>>)

\* C1 witness: _map_score has classified the boundary score 0.15 as BUY
C1_Witness ==
    /\ ms_calls # <<>>
    /\ ms_calls[1].score = 150000
    /\ ms_calls[1].result = <<"BUY", "Moderate">>

\* the leaf entries of a SignalSet: those not under a reserved aggregate key
LeafEntries(d) == {i \in 1..Len(d) : d[i].key \notin AggregateKeys}

LeavesWith(d, direction) ==
    {i \in LeafEntries(d) : d[i].value[1] = direction}

NetTotal(d) ==
    Cardinality(LeavesWith(d, Bullish)) - Cardinality(LeavesWith(d, Bearish))

\* C2: _category_score returns (Bullish leaves - Bearish leaves) / (leaf
\* entries), Neutral leaves counting in the denominator only, and exactly
\* 0.0 when the SignalSet has no leaf entry.
C2_CategoryScoreFormula ==
    \A i \in 1..Len(sc_calls) :
        LET d == sc_calls[i].signals
        IN  sc_calls[i].score =
                IF LeafEntries(d) = {} THEN Lit_0_0
                ELSE FDivInt(NetTotal(d), Cardinality(LeafEntries(d)))

\* C2 witness: a set with a Bullish leaf, a Neutral leaf and an aggregate
\* entry has been scored 0.5
C2_Witness ==
    \E i \in 1..Len(sc_calls) :
        LET d == sc_calls[i].signals
        IN  /\ Cardinality(LeavesWith(d, Bullish)) = 1
            /\ Cardinality(LeavesWith(d, Neutral)) = 1
            /\ Len(d) = 3
            /\ sc_calls[i].score = FDivInt(1, 2)

\* C3: adding an entry under a reserved aggregate key, with any direction,
\* to a SignalSet leaves the Category Scorer's output unchanged.
C3_AggregateExclusion ==
    (Len(sc_calls) = 2 /\ sc_added # NoKey)
        => sc_calls[2].score = sc_calls[1].score

\* C3 witness: a set that scored below zero got a Bullish aggregate entry
\* it did not have and was scored again
C3_Witness ==
    /\ Len(sc_calls) = 2
    /\ sc_added # NoKey
    /\ sc_added \notin DictKeys(sc_calls[1].signals)
    /\ \E i \in 1..Len(sc_calls[2].signals) :
          /\ sc_calls[2].signals[i].key = sc_added
          /\ sc_calls[2].signals[i].value[1] = Bullish
    /\ ~IsExc(sc_calls[1].score)
    /\ FLt(sc_calls[1].score, Lit_0_0)
    /\ sc_calls[2].score = sc_calls[1].score

\* C5: the Category Scorer's output is in [-1.0, 1.0] for every SignalSet.
C5_ScorerRange ==
    \A i \in 1..Len(sc_calls) :
        /\ ~IsExc(sc_calls[i].score)
        /\ FGe(sc_calls[i].score, FNeg(Lit_1_0))
        /\ FLe(sc_calls[i].score, Lit_1_0)

\* C5 witness: a set holding a Bullish aggregate entry next to Bearish
\* leaves has been scored at the lower end of the range
C5_Witness ==
    \E i \in 1..Len(sc_calls) :
        LET d == sc_calls[i].signals
        IN  /\ \E j \in 1..Len(d) :
                  d[j].key \in AggregateKeys /\ d[j].value[1] = Bullish
            /\ Cardinality(LeavesWith(d, Bearish)) = 2
            /\ sc_calls[i].score = FNeg(Lit_1_0)

\* C6: a SignalSet with leaf entries that are all Bullish scores exactly
\* 1.0, all Bearish exactly -1.0, all Neutral exactly 0.0.
C6_Unanimity ==
    \A i \in 1..Len(sc_calls) :
        LET d == sc_calls[i].signals
            n == Cardinality(LeafEntries(d))
        IN  n > 0 =>
              /\ Cardinality(LeavesWith(d, Bullish)) = n
                    => sc_calls[i].score = Lit_1_0
              /\ Cardinality(LeavesWith(d, Bearish)) = n
                    => sc_calls[i].score = FNeg(Lit_1_0)
              /\ Cardinality(LeavesWith(d, Neutral)) = n
                    => sc_calls[i].score = Lit_0_0

\* C6 witness: two Bullish leaves next to a Bearish aggregate entry have
\* been scored 1.0
C6_Witness ==
    \E i \in 1..Len(sc_calls) :
        LET d == sc_calls[i].signals
        IN  /\ Cardinality(LeavesWith(d, Bullish)) = 2
            /\ Cardinality(LeafEntries(d)) = 2
            /\ \E j \in 1..Len(d) :
                  d[j].key \in AggregateKeys /\ d[j].value[1] = Bearish
            /\ sc_calls[i].score = Lit_1_0

\* C7: the Category Scorer returns exactly 0.0 on the empty SignalSet, and
\* raises nothing.
C7_EmptySet ==
    \A i \in 1..Len(sc_calls) :
        sc_calls[i].signals = <<>> => sc_calls[i].score = Lit_0_0

\* C7 witness: the empty SignalSet has been scored
C7_Witness ==
    \E i \in 1..Len(sc_calls) :
        sc_calls[i].signals = <<>> /\ sc_calls[i].score = FZero(FALSE)

\* the SignalSet engine e scores for a category
SignalsOf(e, category) == DictGet(Self(e)[category], "signals", <<>>)

\* the Category Scorer's output by the counting rule of C2
RuleScore(d) ==
    IF LeafEntries(d) = {} THEN Lit_0_0
    ELSE FDivInt(NetTotal(d), Cardinality(LeafEntries(d)))

RuleCount(d) ==
    IF LeafEntries(d) = {} THEN 1 ELSE Cardinality(LeafEntries(d))

Abs(n) == IF n < 0 THEN -n ELSE n

\* |x - num/den| <= 10^-9 for a float x of magnitude at most 1, den > 0
WithinRounding(x, num, den) ==
    LET e    == -x.exp
        xs   == NatMul(x.man, NatFromInt(den))
        ys   == NatShl(NatFromInt(Abs(num)), e)
        diff == IF FIsZero(x) \/ num = 0 \/ x.neg = (num < 0)
                THEN (IF NatCmp(xs, ys) >= 0 THEN NatSub(xs, ys)
                      ELSE NatSub(ys, xs))
                ELSE NatAdd(xs, ys)
    IN  /\ e >= 0
        /\ NatCmp(NatMul(diff, NatFromInt(1000000000)),
                  NatShl(NatFromInt(den), e)) <= 0

\* C4: the composite of decide() is 0.40*ta_score + 0.35*fa_score +
\* 0.25*news_score, each score being the Category Scorer's output on the
\* engine's SignalSet of that category: equal to that float expression,
\* within 10^-9 of its exact value, and inside [-1, +1].
C4_Composite ==
    \A i \in 1..Len(calls) :
        LET l  == calls[i].locals
            ta == SignalsOf(calls[i].engine, "ta")
            fa == SignalsOf(calls[i].engine, "fa")
            nw == SignalsOf(calls[i].engine, "news")
            tc == RuleCount(ta)
            fc == RuleCount(fa)
            nc == RuleCount(nw)
        IN  /\ ~IsExc(l)
            /\ l.ta_score = RuleScore(ta)
            /\ l.fa_score = RuleScore(fa)
            /\ l.news_score = RuleScore(nw)
            /\ l.weighted =
                  FAdd(FAdd(FMul(Lit_0_40, l.ta_score),
                            FMul(Lit_0_35, l.fa_score)),
                       FMul(Lit_0_25, l.news_score))
            /\ WithinRounding(l.weighted,
                  40 * NetTotal(ta) * fc * nc + 35 * NetTotal(fa) * tc * nc
                      + 25 * NetTotal(nw) * tc * fc,
                  100 * tc * fc * nc)
            /\ FGe(l.weighted, FNeg(Lit_1_0))
            /\ FLe(l.weighted, Lit_1_0)

\* C4 witness: decide() has combined two Bearish technical leaves, two
\* Bearish fundamental leaves and a Bullish news leaf into exactly -0.5
C4_Witness ==
    \E i \in 1..Len(calls) :
        /\ ~IsExc(calls[i].locals)
        /\ Cardinality(LeafEntries(SignalsOf(calls[i].engine, "ta"))) = 2
        /\ Cardinality(LeavesWith(SignalsOf(calls[i].engine, "ta"), Bearish)) = 2
        /\ Cardinality(LeavesWith(SignalsOf(calls[i].engine, "fa"), Bearish)) = 2
        /\ Cardinality(LeavesWith(SignalsOf(calls[i].engine, "news"), Bullish)) = 1
        /\ calls[i].locals.weighted = FDivInt(-50, 100)

Recommendations == {"STRONG BUY", "BUY", "HOLD", "SELL", "STRONG SELL"}

\* the confidence label that goes with each recommendation
ConfidenceOf(rec) ==
    IF rec \in {"STRONG BUY", "STRONG SELL"} THEN "High"
    ELSE IF rec \in {"BUY", "SELL"} THEN "Moderate"
    ELSE EmDash

\* C8: decide() is total: for any three SignalSets, empty ones included,
\* it raises nothing and returns one of the five recommendations with its
\* confidence; with three empty SignalSets every score is 0.0 and the
\* result is HOLD with the em dash as confidence.
C8_DecideTotal ==
    \A i \in 1..Len(calls) :
        LET l == calls[i].locals
            d == calls[i].result
            e == calls[i].engine
        IN  /\ ~IsExc(l)
            /\ ~IsExc(d)
            /\ d.recommendation \in Recommendations
            /\ d.confidence = ConfidenceOf(d.recommendation)
            /\ (SignalsOf(e, "ta") = <<>> /\ SignalsOf(e, "fa") = <<>>
                    /\ SignalsOf(e, "news") = <<>>)
                 => /\ l.ta_score = Lit_0_0
                    /\ l.fa_score = Lit_0_0
                    /\ l.news_score = Lit_0_0
                    /\ l.weighted = Lit_0_0
                    /\ \A k \in DOMAIN d.scores : d.scores[k] = Lit_0_0
                    /\ d.recommendation = "HOLD"
                    /\ d.confidence = EmDash

\* C8 witness: decide() has returned HOLD for three empty SignalSets
C8_Witness ==
    \E i \in 1..Len(calls) :
        /\ results.ta_result = [signals |-> <<>>]
        /\ results.fa_result = [signals |-> <<>>]
        /\ results.news_result = [signals |-> <<>>]
        /\ ~IsExc(calls[i].result)
        /\ calls[i].result.recommendation = "HOLD"

\* the end-to-end scenario of the specification
P8_ta   == [signals |-> <<Item(<<"A">>, Bullish, "r"), Item(<<"B">>, Bullish, "r"),
                          Item(<<"C">>, Bearish, "r")>>]
P8_fa   == [signals |-> <<Item(<<"D">>, Bullish, "r"), Item(<<"E">>, Neutral, "r")>>]
P8_news == [signals |-> <<>>]

IsP8 ==
    /\ results.ta_result = P8_ta
    /\ results.fa_result = P8_fa
    /\ results.news_result = P8_news

\* C9: with technical {A: Bullish, B: Bullish, C: Bearish}, fundamental
\* {D: Bullish, E: Neutral} and news {}, decide() reports Technical Score
\* 0.33, Fundamental Score 0.5, News Score 0.0, a composite of about 0.3083
\* reported as 0.31, and BUY with confidence Moderate.
C9_Scenario ==
    IsP8 =>
        \A i \in 1..Len(calls) :
            LET l == calls[i].locals
                d == calls[i].result
            IN  /\ ~IsExc(d)
                /\ d.scores["Technical Score"] = FDivInt(33, 100)
                /\ d.scores["Fundamental Score"] = FDivInt(5, 10)
                /\ d.scores["News Score"] = Lit_0_0
                /\ FGe(l.weighted, FDivInt(3083, 10000))
                /\ FLe(l.weighted, FDivInt(3084, 10000))
                /\ d.scores["Weighted Score"] = FDivInt(31, 100)
                /\ d.recommendation = "BUY"
                /\ d.confidence = "Moderate"

\* C9 witness: decide() has run on the scenario
C9_Witness ==
    /\ IsP8
    /\ calls # <<>>
    /\ ~IsExc(calls[1].result)
    /\ calls[1].result.recommendation = "BUY"

\* C10: decide() is deterministic and idempotent: every call on the same
\* three SignalSets, on the same engine or on another engine built from
\* them, returns the same Decision, explanation text included.
C10_Deterministic ==
    \A i, j \in 1..Len(calls) :
        /\ calls[i].result = calls[j].result
        /\ ~IsExc(calls[i].result) =>
              calls[i].result.explanation = calls[j].result.explanation

\* C10 witness: two engines built from the same results have each returned
\* the same STRONG SELL Decision
C10_Witness ==
    /\ Len(calls) = 2
    /\ calls[1].engine # calls[2].engine
    /\ ~IsExc(calls[1].result)
    /\ calls[1].result.recommendation = "STRONG SELL"
    /\ calls[2].result = calls[1].result

\* the object a reference held by a Decision refers to
Deref(ref) == IF ref = WeightsRef THEN WEIGHTS ELSE ref

\* the weight vector of the specification
SpecWeights ==
    [technical |-> FDivInt(40, 100), fundamental |-> FDivInt(35, 100),
     news |-> FDivInt(25, 100)]

\* the composite of a decide() call recomputed with the weights w
CompositeWith(l, w) ==
    FAdd(FAdd(FMul(l.ta_score, w["technical"]),
              FMul(l.fa_score, w["fundamental"])),
         FMul(l.news_score, w["news"]))

\* C11: the weight vector is the constant technical = 0.40, fundamental =
\* 0.35, news = 0.25; the three weights sum to 1.0; every Decision returned
\* by decide() exposes exactly this vector under "weights", and its
\* composite was computed with these values.
C11_WeightVector ==
    /\ WEIGHTS = SpecWeights
    /\ FAdd(FAdd(WEIGHTS["technical"], WEIGHTS["fundamental"]),
            WEIGHTS["news"]) = Lit_1_0
    /\ \A i \in 1..Len(calls) :
          LET l == calls[i].locals
              d == calls[i].result
          IN  /\ ~IsExc(d)
              /\ Deref(d.weights) = SpecWeights
              /\ l.weighted = CompositeWith(l, Deref(d.weights))

\* C11 witness: decide() has returned a Decision whose three scores are all
\* non-zero, so each weight took part in its composite
C11_Witness ==
    \E i \in 1..Len(calls) :
        /\ ~IsExc(calls[i].result)
        /\ ~FIsZero(calls[i].locals.ta_score)
        /\ ~FIsZero(calls[i].locals.fa_score)
        /\ ~FIsZero(calls[i].locals.news_score)
        /\ Deref(calls[i].result.weights) = SpecWeights

(***************************************************************************)
(* A consumer of the Decision: it holds a dict decide() returned and       *)
(* assigns to an entry of its "weights" mapping, decision["weights"][k] =  *)
(* v.  That mapping is the object decide() put in the dict, the class      *)
(* attribute DecisionEngine.WEIGHTS.                                       *)
(***************************************************************************)
MaxConsumerSignals == 1  \* entries of the three SignalSets of such a run
MaxWrites == 1           \* weight entries the consumer changes

ConsumerInputs == {r \in PipelineInputs : EntryCount(r) <= MaxConsumerSignals}

\* the values the consumer writes
ConsumerValues == {FDivInt(90, 100)}

InitConsumer ==
    /\ results \in ConsumerInputs
    /\ WEIGHTS = WEIGHTS_Initial
    /\ engine = [e \in Engines |-> NewEngine]
    /\ calls = <<>>
    /\ ScorerIdle
    /\ MapIdle
    /\ AnalysisIdle
    /\ ResolveIdle

\* calls[i].result["weights"][k] = v
SetWeight(i, k, v) ==
    /\ ~IsExc(calls[i].result)
    /\ calls[i].result.weights = WeightsRef
    /\ Cardinality({x \in DOMAIN WEIGHTS : WEIGHTS[x] # WEIGHTS_Initial[x]})
          < MaxWrites
    /\ WEIGHTS' = [WEIGHTS EXCEPT ![k] = v]
    /\ UNCHANGED <<results, engine, calls, scorer_vars, map_vars,
                 analysis_vars, resolve_vars>>

NextConsumer ==
    \/ \E e \in Engines : Decide(e)
    \/ \E i \in 1..Len(calls), k \in DOMAIN WEIGHTS, v \in ConsumerValues :
          SetWeight(i, k, v)

SpecConsumer == InitConsumer /\ [][NextConsumer]_vars

\* C12: a Decision is immutable and the engine keeps no state across calls:
\* after a consumer has modified a returned Decision, every decide() call,
\* on any engine, still computes its composite with the weights
\* 0.40/0.35/0.25 and every Decision reports those weights.
C12_NoInterference ==
    \A i \in 1..Len(calls) :
        LET l == calls[i].locals
            d == calls[i].result
        IN  ~IsExc(d) =>
               /\ l.weighted = CompositeWith(l, SpecWeights)
               /\ Deref(d.weights) = SpecWeights

(***************************************************************************)
(* main() from the three results on: it constructs the engines and calls   *)
(* decide() on them.                                                       *)
(***************************************************************************)
MaxFrameSignals == 2  \* entries of the three SignalSets of such a run

FrameInputs == {r \in PipelineInputs : EntryCount(r) <= MaxFrameSignals}

\* a name not bound to an instance yet
NoEngine == <<>>

InitFrame ==
    /\ results \in FrameInputs
    /\ WEIGHTS = WEIGHTS_Initial
    /\ engine = [e \in Engines |-> NoEngine]
    /\ calls = <<>>
    /\ ScorerIdle
    /\ MapIdle
    /\ AnalysisIdle
    /\ ResolveIdle

\* e = DecisionEngine(ta_result, fa_result, news_result)
Construct(e) ==
    /\ engine[e] = NoEngine
    /\ engine' = [engine EXCEPT ![e] = NewEngine]
    /\ UNCHANGED <<results, WEIGHTS, calls, scorer_vars, map_vars,
                 analysis_vars, resolve_vars>>

\* e.decide() on a constructed engine
DecideBuilt(e) ==
    /\ engine[e] # NoEngine
    /\ Decide(e)

NextFrame ==
    \/ \E e \in Engines : Construct(e)
    \/ \E e \in Engines : DecideBuilt(e)

SpecFrame == InitFrame /\ [][NextFrame]_vars

\* C13: constructing a DecisionEngine and calling decide() leaves the three
\* CategoryResults unchanged: no step adds, removes or modifies an entry of
\* any of them.
C13_ResultsUnchanged == [][results' = results]_vars

\* C13 witness: an engine was constructed over non-empty SignalSets and
\* decide() has returned on it
C13_Witness ==
    /\ calls # <<>>
    /\ engine[calls[1].engine] = NewEngine
    /\ ~IsExc(calls[1].result)
    /\ SignalsOf(calls[1].engine, "ta") # <<>>
    /\ SignalsOf(calls[1].engine, "news") # <<>>

\* the floats of the two-digit decimals of magnitude at most 1
TwoDigitFloats == [h \in -100..100 |-> FDivInt(h, 100)]

\* |x - h/100| <= 1/200 on the exact values, for a float x with x.exp <= 0
WithinHalfHundredth(x, h) ==
    LET e    == -x.exp
        xs   == NatMulSmall(x.man, 200)
        ys   == NatShl(NatFromInt(2 * Abs(h)), e)
        diff == IF FIsZero(x) \/ h = 0 \/ x.neg = (h < 0)
                THEN (IF NatCmp(xs, ys) >= 0 THEN NatSub(xs, ys)
                      ELSE NatSub(ys, xs))
                ELSE NatAdd(xs, ys)
    IN  /\ e >= 0
        /\ NatCmp(diff, NatShl(NatFromInt(1), e)) <= 0

\* r is x rounded to 2 decimal places: the float of a two-digit decimal
\* that lies within half a hundredth of x
IsRoundedTo2(x, r) ==
    \E h \in -100..100 : FEq(TwoDigitFloats[h], r) /\ WithinHalfHundredth(x, h)

\* C14: the result of decide() is a bundle with exactly the fields scores,
\* weights, recommendation, confidence and explanation; scores holds
\* Technical Score, Fundamental Score, News Score and Weighted Score, each
\* the corresponding unrounded value rounded to 2 decimal places.
C14_Bundle ==
    \A i \in 1..Len(calls) :
        LET l == calls[i].locals
            d == calls[i].result
        IN  /\ ~IsExc(d)
            /\ DOMAIN d = {"scores", "weights", "recommendation",
                           "confidence", "explanation"}
            /\ DOMAIN d.scores = {"Technical Score", "Fundamental Score",
                                  "News Score", "Weighted Score"}
            /\ IsRoundedTo2(l.ta_score, d.scores["Technical Score"])
            /\ IsRoundedTo2(l.fa_score, d.scores["Fundamental Score"])
            /\ IsRoundedTo2(l.news_score, d.scores["News Score"])
            /\ IsRoundedTo2(l.weighted, d.scores["Weighted Score"])

\* C14 witness: decide() has reported a technical score of 1/3 as 0.33 and
\* a composite that is not a two-digit decimal
C14_Witness ==
    \E i \in 1..Len(calls) :
        /\ ~IsExc(calls[i].result)
        /\ calls[i].locals.ta_score = FDivInt(1, 3)
        /\ calls[i].result.scores["Technical Score"] = FDivInt(33, 100)
        /\ calls[i].result.scores["Weighted Score"] # calls[i].locals.weighted

\* a weight as a percentage, as the explanation prints it
PercentOf(w) == ToString(FHundredths(w)) \o "%"

\* the legend that closes every explanation
Legend ==
    "\nScore interpretation: -1.0 (Strong Sell) to +1.0 (Strong Buy)\n"
    \o "  >= +0.40  STRONG BUY  | >= +0.15  BUY  | -0.15 to +0.15  HOLD\n"
    \o "  <= -0.15  SELL        | <= -0.40  STRONG SELL"

\* the text the specification describes for a Decision d whose unrounded
\* scores are l
ExplanationOf(d, l) ==
    LET w == Deref(d.weights)
    IN  "Technical analysis score: " \o FormatSigned2(l.ta_score)
            \o " (weight " \o PercentOf(w["technical"]) \o ")\n"
        \o "Fundamental analysis score: " \o FormatSigned2(l.fa_score)
            \o " (weight " \o PercentOf(w["fundamental"]) \o ")\n"
        \o "News sentiment score: " \o FormatSigned2(l.news_score)
            \o " (weight " \o PercentOf(w["news"]) \o ")\n"
        \o "Combined weighted score: " \o FormatSigned2(l.weighted) \o "\n"
        \o "Recommendation: " \o d.recommendation \o "\n"
        \o Legend

\* the signed two-decimal text of a score agrees with the rounded score the
\* Decision reports
TextAgrees(x, reported) == FormatSigned2(x) = FormatSigned2(reported)

\* C15: the explanation of a Decision holds, in this order, the technical
\* score with weight 40%, the fundamental score with weight 35%, the news
\* score with weight 25%, the composite, a recommendation line naming the
\* Decision's recommendation, and then a legend that is the same for all
\* inputs; the percentages in the text are those of the weight vector in
\* the result.
C15_Explanation ==
    \A i \in 1..Len(calls) :
        LET l == calls[i].locals
            d == calls[i].result
            w == Deref(d.weights)
        IN  /\ ~IsExc(d)
            /\ d.explanation = ExplanationOf(d, l)
            /\ PercentOf(w["technical"]) = "40%"
            /\ PercentOf(w["fundamental"]) = "35%"
            /\ PercentOf(w["news"]) = "25%"
            /\ TextAgrees(l.ta_score, d.scores["Technical Score"])
            /\ TextAgrees(l.fa_score, d.scores["Fundamental Score"])
            /\ TextAgrees(l.news_score, d.scores["News Score"])
            /\ TextAgrees(l.weighted, d.scores["Weighted Score"])

\* C15 witness: an explanation with a negative technical score, a positive
\* news score and the recommendation SELL has been produced
C15_Witness ==
    \E i \in 1..Len(calls) :
        /\ ~IsExc(calls[i].result)
        /\ calls[i].locals.ta_score.neg
        /\ FGt(calls[i].locals.news_score, Lit_0_0)
        /\ calls[i].result.recommendation = "SELL"
        /\ calls[i].result.explanation
              = ExplanationOf(calls[i].result, calls[i].locals)

(***************************************************************************)
(* The Category Scorer on SignalSets that differ in insertion order only:  *)
(* a caller scores a dict, then scores a dict built from the same items in *)
(* another order.                                                          *)
(***************************************************************************)
\* the rearrangements of 1..n
Orders(n) ==
    {p \in [1..n -> 1..n] : \A i, j \in 1..n : p[i] = p[j] => i = j}

\* the dict with the items of d inserted in the order p
Reordered(d, p) == [i \in 1..Len(d) |-> d[p[i]]]

\* the caller's next dict holds the same items in the order p
Reorder(p) ==
    /\ Len(sc_calls) = 1
    /\ sc_signals = sc_calls[1].signals
    /\ Reordered(sc_signals, p) # sc_signals
    /\ sc_signals' = Reordered(sc_signals, p)
    /\ UNCHANGED <<sc_calls, sc_added, pipeline_vars, map_vars,
                 analysis_vars, resolve_vars>>

NextReorder ==
    \/ Score
    \/ \E p \in Orders(Len(sc_signals)) : Reorder(p)

SpecReorder == InitScorer /\ [][NextReorder]_vars

\* the key-to-direction mapping of a SignalSet
MappingOf(d) == {<<d[i].key, d[i].value[1]>> : i \in 1..Len(d)}

\* C16: the Category Scorer's output does not depend on the insertion order
\* of the SignalSet: two SignalSets with the same key-to-direction mapping,
\* in any order, get the same score.
C16_OrderIndependent ==
    \A i, j \in 1..Len(sc_calls) :
        MappingOf(sc_calls[i].signals) = MappingOf(sc_calls[j].signals)
            => sc_calls[i].score = sc_calls[j].score

\* C16 witness: a set with a Bullish leaf, an aggregate entry and a Neutral
\* leaf was scored in two different orders and got 0.5 both times
C16_Witness ==
    /\ Len(sc_calls) >= 2
    /\ sc_calls[1].signals # sc_calls[2].signals
    /\ MappingOf(sc_calls[1].signals) = MappingOf(sc_calls[2].signals)
    /\ \E k \in 1..Len(sc_calls[1].signals) :
          sc_calls[1].signals[k].key \in AggregateKeys
    /\ sc_calls[1].score = FDivInt(1, 2)
    /\ sc_calls[2].score = FDivInt(1, 2)

(***************************************************************************)
(* Python str operations used by the collaborators and by the exchange     *)
(* registry.  A str is a TLA+ string of ASCII characters.                  *)
(***************************************************************************)
\* the characters of a str, as the tuple the signal keys are kept in
Chars(s) == [i \in 1..Len(s) |-> SubSeq(s, i, i)]

LowerLetters == "abcdefghijklmnopqrstuvwxyz"
UpperLetters == "ABCDEFGHIJKLMNOPQRSTUVWXYZ"
Whitespace == {" ", "\t", "\n", "\r"}

\* the position of the one-character str c in s, 0 when absent
IndexIn(c, s) ==
    IF \E i \in 1..Len(s) : SubSeq(s, i, i) = c
    THEN CHOOSE i \in 1..Len(s) :
            /\ SubSeq(s, i, i) = c
            /\ \A j \in 1..(i - 1) : SubSeq(s, j, j) # c
    ELSE 0

\* str.upper()
RECURSIVE StrUpper(_)
StrUpper(s) ==
    IF s = "" THEN ""
    ELSE LET c == SubSeq(s, 1, 1)
             i == IndexIn(c, LowerLetters)
         IN  (IF i = 0 THEN c ELSE SubSeq(UpperLetters, i, i))
             \o StrUpper(SubSeq(s, 2, Len(s)))

\* str.lower()
RECURSIVE StrLower(_)
StrLower(s) ==
    IF s = "" THEN ""
    ELSE LET c == SubSeq(s, 1, 1)
             i == IndexIn(c, UpperLetters)
         IN  (IF i = 0 THEN c ELSE SubSeq(LowerLetters, i, i))
             \o StrLower(SubSeq(s, 2, Len(s)))

\* str.strip()
RECURSIVE StrStrip(_)
StrStrip(s) ==
    IF s = "" THEN ""
    ELSE IF SubSeq(s, 1, 1) \in Whitespace THEN StrStrip(SubSeq(s, 2, Len(s)))
    ELSE IF SubSeq(s, Len(s), Len(s)) \in Whitespace
    THEN StrStrip(SubSeq(s, 1, Len(s) - 1))
    ELSE s

\* str.rfind(c) for a one-character c, as a 1-based position: 0 when
\* absent (Python's -1), p + 1 for Python's position p
StrRFind(s, c) ==
    IF \E i \in 1..Len(s) : SubSeq(s, i, i) = c
    THEN CHOOSE i \in 1..Len(s) :
            /\ SubSeq(s, i, i) = c
            /\ \A j \in (i + 1)..Len(s) : SubSeq(s, j, j) # c
    ELSE 0

(***************************************************************************)
(* Float operations of the collaborators.                                  *)
(***************************************************************************)
\* quotient bits kept below the binary point by FDivSmall
DivSmallGuardBits == 30

\* float / int for an int 0 < d < 2^15: the float nearest to the exact
\* quotient
FDivSmall(x, d) ==
    IF FIsZero(x) THEN x
    ELSE LET qr == NatDivSmall(NatShl(x.man, DivSmallGuardBits), d)
             m  == IF qr[2] = 0 THEN NatShl(qr[1], 1)
                   ELSE NatAdd(NatShl(qr[1], 1), <<1>>)
         IN  FRound(x.neg, m, x.exp - DivSmallGuardBits - 1)

\* |x| * 1000 rounded half-even to an integer: the digits of round(x, 3)
FThousandths(x) ==
    IF FIsZero(x) THEN 0
    ELSE LET m == NatMulSmall(x.man, 1000)
         IN  IF x.exp >= 0 THEN NatToInt(NatShl(m, x.exp))
             ELSE NatToInt(NatShrRound(m, -x.exp))

\* round(x, 3)
Round3(x) ==
    LET t == FThousandths(x)
    IN  IF t = 0 THEN FZero(x.neg)
        ELSE FDivInt(IF x.neg THEN -t ELSE t, 1000)

(***************************************************************************)
(* The collaborators (python/technical_analysis.py,                        *)
(* python/fundamental_analysis.py, python/news_analysis.py).  The market   *)
(* data an instance is built from is represented by the branch it selects  *)
(* in each signal-writing check; the numeric indicator and metric entries  *)
(* are left out, the counts written by _aggregate_signal are kept.         *)
(***************************************************************************)
\* the en dash U+2013 of the "Mixed" reasons
EnDash == "U+2013"

\* a check whose condition to write a signal is not met
NoSignal == "no signal"

\* the signal-writing checks of TechnicalAnalysis in the order compute_all
\* runs them, each with the directions its branches write
TAChecks == <<
    [key |-> Chars("MA_Cross"),        directions |-> {Bullish, Bearish}],
    [key |-> Chars("Price_vs_SMA200"), directions |-> {Bullish, Bearish}],
    [key |-> Chars("RSI"),             directions |-> {Bearish, Bullish, Neutral}],
    [key |-> Chars("MACD"),            directions |-> {Bullish, Bearish}],
    [key |-> Chars("Bollinger"),       directions |-> {Bearish, Bullish, Neutral}],
    [key |-> Chars("Stochastic"),      directions |-> {Bullish, Bearish, Neutral}],
    [key |-> Chars("OBV"),             directions |-> {Bullish, Bearish}],
    [key |-> Chars("ADX"),             directions |-> {Neutral}],
    [key |-> Chars("CCI"),             directions |-> {Bearish, Bullish, Neutral}],
    [key |-> Chars("Williams_R"),      directions |-> {Bullish, Bearish, Neutral}]>>

\* the signal-writing checks of FundamentalAnalysis in the order
\* compute_all runs them; _analyst_targets writes nothing without a target
\* and a price
FAChecks == <<
    [key |-> Chars("Valuation"),        directions |-> {Bullish, Bearish, Neutral}],
    [key |-> Chars("Profitability"),    directions |-> {Bullish, Bearish, Neutral}],
    [key |-> Chars("Growth"),           directions |-> {Bullish, Bearish, Neutral}],
    [key |-> Chars("Financial Health"), directions |-> {Bullish, Bearish, Neutral}],
    [key |-> Chars("Dividends"),        directions |-> {Bullish, Neutral}],
    [key |-> Chars("Analyst Target"),
     directions |-> {Bullish, Bearish, Neutral, NoSignal}]>>

\* the data sets: one branch per check
RECURSIVE ChoicesUpTo(_, _)
ChoicesUpTo(checks, n) ==
    IF n = 0 THEN {<<>>}
    ELSE {Append(d, x) : d \in ChoicesUpTo(checks, n - 1),
                         x \in checks[n].directions}

BranchChoices(checks) == ChoicesUpTo(checks, Len(checks))

\* TechnicalAnalysis(df)
NewTechnicalAnalysis(data) ==
    [kind |-> "ta", data |-> data, indicators |-> <<>>, signals |-> <<>>]

\* FundamentalAnalysis(ticker, currency_sym)
NewFundamentalAnalysis(data) ==
    [kind |-> "fa", data |-> data, metrics |-> <<>>, signals |-> <<>>]

\* self.signals after the checks from i on have written their entries
RECURSIVE WriteSignals(_, _, _, _)
WriteSignals(signals, checks, data, i) ==
    IF i > Len(checks) THEN signals
    ELSE WriteSignals(
             IF data[i] = NoSignal THEN signals
             ELSE DictSet(signals, checks[i].key, Signal(data[i], "r")),
             checks, data, i + 1)

\* sum(1 for s, _ in signals.values() if s == direction)
CountDirection(signals, direction) ==
    Cardinality({i \in 1..Len(signals) : signals[i].value[1] = direction})

\* _aggregate_signal with the margin of 2 added on the wrong side
TechnicalAnalysis_aggregate_signal_misplaced_margin(self) ==
    LET bullish == CountDirection(self.signals, Bullish)
        bearish == CountDirection(self.signals, Bearish)
        total   == Len(self.signals)
        neutral == total - bullish - bearish
        overall ==
            IF bullish + 2 > bearish
            THEN Signal(Bullish, ToString(bullish) \o "/" \o ToString(total)
                                 \o " signals bullish")
            ELSE IF bearish + 2 > bullish
            THEN Signal(Bearish, ToString(bearish) \o "/" \o ToString(total)
                                 \o " signals bearish")
            ELSE Signal(Neutral, "Mixed " \o EnDash \o " " \o ToString(bullish)
                                 \o "B/" \o ToString(bearish) \o "S/"
                                 \o ToString(neutral) \o "N")
    IN  [self EXCEPT
            !.indicators =
                DictSet(DictSet(DictSet(self.indicators,
                    "_ta_bullish", bullish), "_ta_bearish", bearish),
                    "_ta_neutral", neutral),
            !.signals = DictSet(self.signals, Key_TA_Overall, overall)]

TechnicalAnalysis_aggregate_signal(self) ==
    LET bullish == CountDirection(self.signals, Bullish)
        bearish == CountDirection(self.signals, Bearish)
        total   == Len(self.signals)
        neutral == total - bullish - bearish
        overall ==
            IF bullish > bearish + 2
            THEN Signal(Bullish, ToString(bullish) \o "/" \o ToString(total)
                                 \o " signals bullish")
            ELSE IF bearish > bullish + 2
            THEN Signal(Bearish, ToString(bearish) \o "/" \o ToString(total)
                                 \o " signals bearish")
            ELSE Signal(Neutral, "Mixed " \o EnDash \o " " \o ToString(bullish)
                                 \o "B/" \o ToString(bearish) \o "S/"
                                 \o ToString(neutral) \o "N")
    IN  [self EXCEPT
            !.indicators =
                DictSet(DictSet(DictSet(self.indicators,
                    "_ta_bullish", bullish), "_ta_bearish", bearish),
                    "_ta_neutral", neutral),
            !.signals = DictSet(self.signals, Key_TA_Overall, overall)]

\* compute_all() with _aggregate_signal run before _williams_r
TechnicalAnalysis_compute_all_early_aggregate(self) ==
    LET n      == Len(TAChecks) - 1
        early  == TechnicalAnalysis_aggregate_signal(
                      [self EXCEPT !.signals =
                          WriteSignals(self.signals, SubSeq(TAChecks, 1, n),
                                       self.data, 1)])
        after  == [early EXCEPT !.signals =
                      DictSet(early.signals, TAChecks[n + 1].key,
                              Signal(self.data[n + 1], "r"))]
    IN  [self |-> after,
         returned |-> [indicators |-> after.indicators,
                       signals |-> after.signals]]

\* compute_all(): the instance afterwards and the dict returned, whose
\* entries are the instance's own indicators and signals dicts
TechnicalAnalysis_compute_all(self) ==
    LET after == TechnicalAnalysis_aggregate_signal(
                     [self EXCEPT !.signals =
                         WriteSignals(self.signals, TAChecks, self.data, 1)])
    IN  [self |-> after,
         returned |-> [indicators |-> after.indicators,
                       signals |-> after.signals]]

FundamentalAnalysis_aggregate_signal(self) ==
    LET bullish == CountDirection(self.signals, Bullish)
        bearish == CountDirection(self.signals, Bearish)
        total   == Len(self.signals)
        neutral == total - bullish - bearish
        overall ==
            IF bullish > bearish + 1
            THEN Signal(Bullish, ToString(bullish) \o "/" \o ToString(total)
                                 \o " fundamentals bullish")
            ELSE IF bearish > bullish + 1
            THEN Signal(Bearish, ToString(bearish) \o "/" \o ToString(total)
                                 \o " fundamentals bearish")
            ELSE Signal(Neutral, "Mixed " \o EnDash \o " " \o ToString(bullish)
                                 \o "B/" \o ToString(bearish) \o "S/"
                                 \o ToString(neutral) \o "N")
    IN  [self EXCEPT
            !.metrics =
                DictSet(DictSet(DictSet(self.metrics,
                    "_fa_bullish", bullish), "_fa_bearish", bearish),
                    "_fa_neutral", neutral),
            !.signals = DictSet(self.signals, Key_FA_Overall, overall)]

FundamentalAnalysis_compute_all(self) ==
    LET after == FundamentalAnalysis_aggregate_signal(
                     [self EXCEPT !.signals =
                         WriteSignals(self.signals, FAChecks, self.data, 1)])
    IN  [self |-> after,
         returned |-> [metrics |-> after.metrics, signals |-> after.signals]]

(***************************************************************************)
(* NewsAnalysis.  The network is represented by what each of the two       *)
(* fetchers does to self.headlines before it returns or raises; the        *)
(* sentiment analyzer by the compound score it gives each title.           *)
(***************************************************************************)
MaxFetched == 2  \* headlines one fetcher appends

\* metric values that are a str or None next to the floats and ints
PyStr(s) == [str |-> s]
PyNone == [none |-> TRUE]

\* the titles the sources serve; two of them differ in case and blanks only
Titles == {"Up", " up", "Down"}

\* SentimentIntensityAnalyzer.polarity_scores(title)["compound"], in
\* quarters; quarters are exact floats, as are their sums
CompoundQuarters(title) ==
    IF title = "Up" THEN 3
    ELSE IF title = " up" THEN 1
    ELSE -3

Compound(title) == FDivInt(CompoundQuarters(title), 4)

\* the sequences of at most n titles
RECURSIVE TitleSeqs(_)
TitleSeqs(n) ==
    IF n = 0 THEN {<<>>}
    ELSE LET shorter == TitleSeqs(n - 1)
         IN  shorter \cup {Append(q, t) : q \in {x \in shorter : Len(x) = n - 1},
                                          t \in Titles}

\* what a fetcher call does: the titles it appends, and whether it then
\* raises instead of returning
FetchOutcomes == [added : TitleSeqs(MaxFetched), raised : BOOLEAN]

\* NewsAnalysis(symbol, company_name); data[1] is the outcome of
\* _fetch_google_news, data[2] of _fetch_finviz
NewNewsAnalysis(data) ==
    [kind |-> "news", data |-> data, headlines |-> <<>>, metrics |-> <<>>,
     signals |-> <<>>]

\* the headline dicts a fetcher appends
Fetched(outcome) ==
    [i \in 1..Len(outcome.added) |-> [title |-> outcome.added[i]]]

\* the deduplication loop of _fetch_headlines from headline i on
RECURSIVE Deduplicate(_, _, _, _)
Deduplicate(headlines, i, seen, unique) ==
    IF i > Len(headlines) THEN unique
    ELSE LET key == StrStrip(StrLower(headlines[i].title))
         IN  IF key \notin seen
             THEN Deduplicate(headlines, i + 1, seen \cup {key},
                              Append(unique, headlines[i]))
             ELSE Deduplicate(headlines, i + 1, seen, unique)

\* _fetch_headlines with an exception of a source let through
NewsAnalysis_fetch_headlines_unguarded(self) ==
    IF self.data[1].raised THEN Exc("Exception")
    ELSE IF self.data[2].raised THEN Exc("Exception")
    ELSE LET all    == self.headlines \o Fetched(self.data[1])
                           \o Fetched(self.data[2])
             unique == Deduplicate(all, 1, {}, <<>>)
         IN  [self EXCEPT !.headlines = SubSeq(unique, 1, IF Len(unique) < 20
                                                       THEN Len(unique) ELSE 20)]

\* _fetch_headlines: every source is tried, an exception of a source is
\* swallowed after what the source had appended; then the list is
\* deduplicated by title and cut to 20
NewsAnalysis_fetch_headlines(self) ==
    LET all    == self.headlines \o Fetched(self.data[1])
                      \o Fetched(self.data[2])
        unique == Deduplicate(all, 1, {}, <<>>)
    IN  [self EXCEPT !.headlines = SubSeq(unique, 1, IF Len(unique) < 20
                                                  THEN Len(unique) ELSE 20)]

\* _label(score)
label(score) ==
    IF FGt(score, FDivInt(5, 100)) THEN "Positive"
    ELSE IF FLt(score, FNeg(FDivInt(5, 100))) THEN "Negative"
    ELSE "Neutral"

\* sum(scores) from item i on, added to acc
RECURSIVE FSum(_, _, _)
FSum(scores, i, acc) ==
    IF i > Len(scores) THEN acc
    ELSE FSum(scores, i + 1, FAdd(acc, scores[i]))

NewsAnalysis_score_sentiment(self) ==
    IF self.headlines = <<>>
    THEN [self EXCEPT !.metrics =
             DictSet(DictSet(self.metrics, "News Count", 0),
                     "Avg Sentiment", PyStr("N/A"))]
    ELSE LET scores == [i \in 1..Len(self.headlines) |->
                           Compound(self.headlines[i].title)]
             scored == [i \in 1..Len(self.headlines) |->
                           [title |-> self.headlines[i].title,
                            sentiment_score |-> Round3(scores[i]),
                            sentiment |-> label(scores[i])]]
             avg      == FDivSmall(FSum(scores, 1, Lit_0_0), Len(scores))
             positive == Cardinality({i \in 1..Len(scores) :
                             FGt(scores[i], FDivInt(5, 100))})
             negative == Cardinality({i \in 1..Len(scores) :
                             FLt(scores[i], FNeg(FDivInt(5, 100)))})
             neutral  == Len(scores) - positive - negative
         IN  [self EXCEPT
                 !.headlines = scored,
                 !.metrics =
                     DictSet(DictSet(DictSet(DictSet(DictSet(self.metrics,
                         "News Count", Len(scores)),
                         "Avg Sentiment", Round3(avg)),
                         "Positive Headlines", positive),
                         "Negative Headlines", negative),
                         "Neutral Headlines", neutral)]

\* dict.get(key, default) on a dict kept as its items
ItemsGet(d, key, default) ==
    IF key \in DictKeys(d)
    THEN d[CHOOSE i \in 1..Len(d) : d[i].key = key].value
    ELSE default

\* format(x, ".3f")
Format3(x) ==
    LET t == FThousandths(x)
    IN  (IF x.neg THEN "-" ELSE "") \o ToString(t \div 1000) \o "."
        \o ToString((t % 1000) \div 100) \o ToString((t % 100) \div 10)
        \o ToString(t % 10)

NewsAnalysis_aggregate_signal(self) ==
    LET avg == ItemsGet(self.metrics, "Avg Sentiment", PyNone)
    IN  IF avg = PyNone \/ avg = PyStr("N/A")
        THEN [self EXCEPT !.signals =
                 DictSet(self.signals, Key_News_Overall,
                         Signal(Neutral, "No news data available"))]
        ELSE LET pos   == ItemsGet(self.metrics, "Positive Headlines", 0)
                 neg   == ItemsGet(self.metrics, "Negative Headlines", 0)
                 total == ItemsGet(self.metrics, "News Count", 0)
                 overall ==
                     IF FGt(avg, Lit_0_15) /\ pos > neg
                     THEN Signal(Bullish, "Avg sentiment " \o Format3(avg)
                              \o ", " \o ToString(pos) \o "/"
                              \o ToString(total) \o " positive")
                     ELSE IF FLt(avg, FNeg(Lit_0_15)) /\ neg > pos
                     THEN Signal(Bearish, "Avg sentiment " \o Format3(avg)
                              \o ", " \o ToString(neg) \o "/"
                              \o ToString(total) \o " negative")
                     ELSE IF FGt(avg, FDivInt(5, 100))
                     THEN Signal(Bullish, "Slightly positive sentiment "
                              \o Format3(avg))
                     ELSE IF FLt(avg, FNeg(FDivInt(5, 100)))
                     THEN Signal(Bearish, "Slightly negative sentiment "
                              \o Format3(avg))
                     ELSE Signal(Neutral, "Mixed sentiment " \o Format3(avg))
             IN  [self EXCEPT !.signals =
                     DictSet(self.signals, Key_News_Overall, overall)]

\* lines 23-27: the dict returned, with the instance as it is then
NewsAnalysis_compute_all_return(after) ==
    [self |-> after,
     returned |-> [headlines |-> after.headlines,
                   metrics |-> after.metrics,
                   signals |-> after.signals]]

\* lines 21-27, reached when _fetch_headlines has returned
NewsAnalysis_compute_all_rest(self, fetched) ==
    IF IsExc(fetched) THEN [self |-> self, returned |-> fetched]
    ELSE NewsAnalysis_compute_all_return(
             NewsAnalysis_aggregate_signal(
                 NewsAnalysis_score_sentiment(fetched)))

\* compute_all(): the instance afterwards and the dict returned, or the
\* exception that left it
NewsAnalysis_compute_all(self) ==
    NewsAnalysis_compute_all_rest(self, NewsAnalysis_fetch_headlines(self))

(***************************************************************************)
(* A collaborator alone: main() builds an instance from the data it        *)
(* fetched and calls compute_all(); a caller may call it again.  an_calls  *)
(* keeps what each call returned, as it was when the call returned.        *)
(***************************************************************************)
MaxComputeCalls == 2  \* compute_all() calls on the instance

AnalysisInputs ==
    {NewTechnicalAnalysis(d) : d \in BranchChoices(TAChecks)}
    \cup {NewFundamentalAnalysis(d) : d \in BranchChoices(FAChecks)}
    \cup {NewNewsAnalysis(d) : d \in [1..2 -> FetchOutcomes]}

InitAnalysis ==
    /\ an_obj \in AnalysisInputs
    /\ an_calls = <<>>
    /\ PipelineIdle
    /\ ScorerIdle
    /\ MapIdle
    /\ ResolveIdle

\* the call returns r.returned, or raises it, and leaves the instance r.self
Called(r) ==
    /\ an_obj' = r.self
    /\ an_calls' = Append(an_calls, r.returned)
    /\ UNCHANGED <<pipeline_vars, scorer_vars, map_vars, resolve_vars>>

TAComputeAll ==
    /\ an_obj.kind = "ta"
    /\ Len(an_calls) < MaxComputeCalls
    /\ Called(TechnicalAnalysis_compute_all(an_obj))

FAComputeAll ==
    /\ an_obj.kind = "fa"
    /\ Len(an_calls) < MaxComputeCalls
    /\ Called(FundamentalAnalysis_compute_all(an_obj))

NewsComputeAll ==
    /\ an_obj.kind = "news"
    /\ Len(an_calls) < MaxComputeCalls
    /\ Called(NewsAnalysis_compute_all(an_obj))

NextAnalysis ==
    \/ TAComputeAll
    \/ FAComputeAll
    \/ NewsComputeAll

SpecAnalysis == InitAnalysis /\ [][NextAnalysis]_vars

\* the aggregate key a collaborator reserves
AggregateKeyOf(kind) ==
    IF kind = "ta" THEN Key_TA_Overall
    ELSE IF kind = "fa" THEN Key_FA_Overall
    ELSE Key_News_Overall

\* the positions of a SignalSet holding an aggregate entry
AggregatePositions(d) ==
    {i \in 1..Len(d) :
        \/ d[i].key \in AggregateKeys
        \/ (StartsWith(d[i].key, <<"_">>)
            /\ EndsWith(d[i].key, <<"O", "v", "e", "r", "a", "l", "l">>))}

\* C17: the SignalSet returned by the first compute_all() of a fresh
\* TechnicalAnalysis, FundamentalAnalysis or NewsAnalysis has every
\* direction in {Bullish, Bearish, Neutral} and exactly one aggregate
\* entry, the one of its collaborator, added after all leaf entries; the
\* news SignalSet holds that entry and nothing else.
C17_FirstSignalSet ==
    an_calls # <<>> =>
        LET r == an_calls[1]
        IN  /\ ~IsExc(r)
            /\ UniqueKeys(r.signals)
            /\ \A i \in 1..Len(r.signals) :
                  r.signals[i].value[1] \in Directions
            /\ AggregatePositions(r.signals) = {Len(r.signals)}
            /\ r.signals[Len(r.signals)].key = AggregateKeyOf(an_obj.kind)
            /\ an_obj.kind = "news" => Len(r.signals) = 1

\* C17 witness: a first compute_all() has returned the ten technical leaf
\* entries followed by a Bearish _TA_Overall
C17_Witness ==
    /\ an_calls # <<>>
    /\ an_obj.kind = "ta"
    /\ ~IsExc(an_calls[1])
    /\ Len(an_calls[1].signals) = 11
    /\ an_calls[1].signals[11] \in
          {Item(Key_TA_Overall, Bearish, ToString(n) \o "/10 signals bearish") :
              n \in 3..10}

\* the deduplication keys of a list of headlines or of titles
TitleKeys(titles) ==
    {StrStrip(StrLower(titles[i])) : i \in 1..Len(titles)}

\* C18: a failure of the news fetch never leaves compute_all() as an
\* exception; when a source raises, the other source is still tried and
\* its headlines are kept; and when no headline is obtained at all,
\* compute_all() returns News Count 0, Avg Sentiment "N/A" and a SignalSet
\* whose only entry is _News_Overall = Neutral ("No news data available"),
\* which the Category Scorer scores 0.0.
C18_NewsFetchFailure ==
    (an_obj # NoObject /\ an_obj.kind = "news") =>
        \A i \in 1..Len(an_calls) :
            LET r == an_calls[i]
            IN  /\ ~IsExc(r)
                /\ TitleKeys(an_obj.data[1].added) \cup
                       TitleKeys(an_obj.data[2].added)
                     = TitleKeys([k \in 1..Len(r.headlines) |->
                                     r.headlines[k].title])
                /\ r.headlines = <<>> =>
                      /\ ItemsGet(r.metrics, "News Count", PyNone) = 0
                      /\ ItemsGet(r.metrics, "Avg Sentiment", PyNone)
                            = PyStr("N/A")
                      /\ r.signals = <<Item(Key_News_Overall, Neutral,
                                            "No news data available")>>
                      /\ category_score(r.signals) = Lit_0_0

\* C18 witness: both sources raised without a headline and compute_all()
\* returned "N/A"
C18_Witness ==
    /\ an_obj # NoObject
    /\ an_obj.kind = "news"
    /\ an_calls # <<>>
    /\ ~IsExc(an_calls[1])
    /\ an_obj.data[1].raised
    /\ an_obj.data[2].raised
    /\ an_obj.data[1].added = <<>>
    /\ an_obj.data[2].added = <<>>
    /\ ItemsGet(an_calls[1].metrics, "Avg Sentiment", PyNone) = PyStr("N/A")

\* the first source raised and the second one's two headlines were kept
C18_WitnessPartial ==
    /\ an_obj # NoObject
    /\ an_obj.kind = "news"
    /\ an_calls # <<>>
    /\ ~IsExc(an_calls[1])
    /\ an_obj.data[1].raised
    /\ an_obj.data[1].added = <<>>
    /\ Len(an_calls[1].headlines) = 2

(***************************************************************************)
(* exchange_registry.py.  An ExchangeInfo keeps the two fields             *)
(* resolve_ticker reads, code and suffix; name, country and currency are   *)
(* display text of list_exchanges only.                                    *)
(***************************************************************************)
ExchangeInfo(code, suffix) == [code |-> code, suffix |-> suffix]

TickerInfo(base_ticker, yahoo_symbol, exchange) ==
    [base_ticker |-> base_ticker,
     yahoo_symbol |-> yahoo_symbol,
     exchange |-> exchange]

\* the EXCHANGES dict, as its items in the order of the literal
EXCHANGES == <<
    [key |-> "NYSE", value |-> ExchangeInfo("NYSE", "")],
    [key |-> "NASDAQ", value |-> ExchangeInfo("NASDAQ", "")],
    [key |-> "AMEX", value |-> ExchangeInfo("AMEX", "")],
    [key |-> "TSX", value |-> ExchangeInfo("TSX", ".TO")],
    [key |-> "TSXV", value |-> ExchangeInfo("TSXV", ".V")],
    [key |-> "BCBA", value |-> ExchangeInfo("BCBA", ".BA")],
    [key |-> "BVSP", value |-> ExchangeInfo("BVSP", ".SA")],
    [key |-> "BMV", value |-> ExchangeInfo("BMV", ".MX")],
    [key |-> "LSE", value |-> ExchangeInfo("LSE", ".L")],
    [key |-> "IOB", value |-> ExchangeInfo("IOB", ".IL")],
    [key |-> "EPA", value |-> ExchangeInfo("EPA", ".PA")],
    [key |-> "FRA", value |-> ExchangeInfo("FRA", ".F")],
    [key |-> "XETRA", value |-> ExchangeInfo("XETRA", ".DE")],
    [key |-> "MUN", value |-> ExchangeInfo("MUN", ".MU")],
    [key |-> "STU", value |-> ExchangeInfo("STU", ".SG")],
    [key |-> "HAM", value |-> ExchangeInfo("HAM", ".HM")],
    [key |-> "BER", value |-> ExchangeInfo("BER", ".BE")],
    [key |-> "DUS", value |-> ExchangeInfo("DUS", ".DU")],
    [key |-> "AMS", value |-> ExchangeInfo("AMS", ".AS")],
    [key |-> "BIT", value |-> ExchangeInfo("BIT", ".MI")],
    [key |-> "BME", value |-> ExchangeInfo("BME", ".MC")],
    [key |-> "SWX", value |-> ExchangeInfo("SWX", ".SW")],
    [key |-> "VTX", value |-> ExchangeInfo("VTX", ".VX")],
    [key |-> "STO", value |-> ExchangeInfo("STO", ".ST")],
    [key |-> "CPH", value |-> ExchangeInfo("CPH", ".CO")],
    [key |-> "OSL", value |-> ExchangeInfo("OSL", ".OL")],
    [key |-> "HEL", value |-> ExchangeInfo("HEL", ".HE")],
    [key |-> "VIE", value |-> ExchangeInfo("VIE", ".VI")],
    [key |-> "EBR", value |-> ExchangeInfo("EBR", ".BR")],
    [key |-> "ELI", value |-> ExchangeInfo("ELI", ".LS")],
    [key |-> "ATH", value |-> ExchangeInfo("ATH", ".AT")],
    [key |-> "IST", value |-> ExchangeInfo("IST", ".IS")],
    [key |-> "WSE", value |-> ExchangeInfo("WSE", ".WA")],
    [key |-> "PSE", value |-> ExchangeInfo("PSE", ".PR")],
    [key |-> "BUD", value |-> ExchangeInfo("BUD", ".BD")],
    [key |-> "MCX", value |-> ExchangeInfo("MCX", ".ME")],
    [key |-> "TSE", value |-> ExchangeInfo("TSE", ".T")],
    [key |-> "HKEX", value |-> ExchangeInfo("HKEX", ".HK")],
    [key |-> "SSE", value |-> ExchangeInfo("SSE", ".SS")],
    [key |-> "SZSE", value |-> ExchangeInfo("SZSE", ".SZ")],
    [key |-> "KRX", value |-> ExchangeInfo("KRX", ".KS")],
    [key |-> "KOSDAQ", value |-> ExchangeInfo("KOSDAQ", ".KQ")],
    [key |-> "ASX", value |-> ExchangeInfo("ASX", ".AX")],
    [key |-> "NZX", value |-> ExchangeInfo("NZX", ".NZ")],
    [key |-> "SGX", value |-> ExchangeInfo("SGX", ".SI")],
    [key |-> "KLSE", value |-> ExchangeInfo("KLSE", ".KL")],
    [key |-> "IDX", value |-> ExchangeInfo("IDX", ".JK")],
    [key |-> "SET", value |-> ExchangeInfo("SET", ".BK")],
    [key |-> "TWSE", value |-> ExchangeInfo("TWSE", ".TW")],
    [key |-> "TPEX", value |-> ExchangeInfo("TPEX", ".TWO")],
    [key |-> "PSEi", value |-> ExchangeInfo("PSEi", ".PS")],
    [key |-> "TLV", value |-> ExchangeInfo("TLV", ".TA")],
    [key |-> "BSE", value |-> ExchangeInfo("BSE", ".BO")],
    [key |-> "NSE", value |-> ExchangeInfo("NSE", ".NS")],
    [key |-> "IREX", value |-> ExchangeInfo("IREX", ".IR")],
    [key |-> "TADAWUL", value |-> ExchangeInfo("TADAWUL", ".SR")],
    [key |-> "QSE", value |-> ExchangeInfo("QSE", ".QA")],
    [key |-> "JSE", value |-> ExchangeInfo("JSE", ".JO")] >>

\* { info.suffix: info for info in EXCHANGES.values() if info.suffix }: a
\* suffix takes the place of its first entry and the info of its last one
SUFFIX_MAP ==
    LET suffix(i) == EXCHANGES[i].value.suffix
        first == SelectSeq([i \in 1..Len(EXCHANGES) |-> i],
                     LAMBDA i : /\ suffix(i) # ""
                                /\ \A j \in 1..(i - 1) : suffix(j) # suffix(i))
        last(i) == CHOOSE j \in i..Len(EXCHANGES) :
                      /\ suffix(j) = suffix(i)
                      /\ \A k \in (j + 1)..Len(EXCHANGES) :
                            suffix(k) # suffix(i)
    IN  [n \in 1..Len(first) |->
            [key |-> suffix(first[n]),
             value |-> EXCHANGES[last(first[n])].value]]

KNOWN_SUFFIXES == DictKeys(SUFFIX_MAP)

\* ticker[dot_pos:] and ticker[:dot_pos] for the 1-based position p
StrFrom(s, p) == SubSeq(s, p, Len(s))
StrBefore(s, p) == SubSeq(s, 1, p - 1)

\* _strip_known_suffix(ticker); Python's dot_pos > 0 is position > 1 here
strip_known_suffix(ticker) ==
    LET dot_pos == StrRFind(ticker, ".")
    IN  IF dot_pos > 1 /\ StrFrom(ticker, dot_pos) \in KNOWN_SUFFIXES
        THEN StrBefore(ticker, dot_pos)
        ELSE ticker

\* raw_ticker.strip(), without an exchange prefix, upper-cased (lines
\* 114-120); raw.split(":")[-1] is what follows the last colon
NormalizedTicker(raw_ticker) ==
    LET stripped == StrStrip(raw_ticker)
        colon == StrRFind(stripped, ":")
    IN  StrUpper(IF colon > 0
                 THEN StrStrip(StrFrom(stripped, colon + 1))
                 ELSE stripped)

\* resolve_ticker(raw_ticker, exchange_code): the TickerInfo returned, or
\* the ValueError raised.  exchange_code is PyNone or PyStr(code).
resolve_ticker(raw_ticker, exchange_code) ==
    LET raw == NormalizedTicker(raw_ticker)
        dot_pos == StrRFind(raw, ".")
        candidate_suffix == StrFrom(raw, dot_pos)
    IN  IF exchange_code # PyNone /\ exchange_code.str # ""
        THEN LET code == StrUpper(exchange_code.str)
                 info == ItemsGet(EXCHANGES, code, PyNone)
                 base == strip_known_suffix(raw)
             IN  IF code \notin DictKeys(EXCHANGES)
                 THEN Exc("ValueError")
                 ELSE TickerInfo(base, base \o info.suffix, info)
        ELSE IF dot_pos > 1 /\ candidate_suffix \in KNOWN_SUFFIXES
        THEN TickerInfo(StrBefore(raw, dot_pos), raw,
                        ItemsGet(SUFFIX_MAP, candidate_suffix, PyNone))
        ELSE TickerInfo(raw, raw, PyNone)

\* the regions of list_exchanges, in order
regions == <<
    [region |-> "Americas",
     codes |-> <<
            "NYSE", "NASDAQ", "AMEX", "TSX", "TSXV", "BCBA",
            "BVSP", "BMV" >>],
    [region |-> "Europe",
     codes |-> <<
            "LSE", "IOB", "EPA", "FRA", "XETRA", "MUN",
            "STU", "HAM", "BER", "DUS", "AMS", "BIT", "BME",
            "SWX", "VTX", "STO", "CPH", "OSL", "HEL", "VIE",
            "EBR", "ELI", "ATH", "IST", "WSE", "PSE", "BUD",
            "MCX" >>],
    [region |-> "Asia-Pacific",
     codes |-> <<
            "TSE", "HKEX", "SSE", "SZSE", "KRX", "KOSDAQ",
            "ASX", "NZX", "SGX", "KLSE", "IDX", "SET",
            "TWSE", "TPEX", "PSEi" >>],
    [region |-> "Middle East & South Asia",
     codes |-> <<
            "TLV", "BSE", "NSE", "IREX", "TADAWUL", "QSE" >>],
    [region |-> "Africa",
     codes |-> <<
            "JSE" >>] >>

\* the codes list_exchanges prints, one line per code of each region:
\* info.code of EXCHANGES[code] (a KeyError if a code were missing)
RECURSIVE ListedFrom(_, _)
ListedFrom(codes, i) ==
    IF i > Len(regions) THEN codes
    ELSE ListedFrom(codes \o regions[i].codes, i + 1)

list_exchanges ==
    LET codes == ListedFrom(<<>>, 1)
    IN  IF \E i \in 1..Len(codes) : codes[i] \notin DictKeys(EXCHANGES)
        THEN Exc("KeyError")
        ELSE [i \in 1..Len(codes) |->
                ItemsGet(EXCHANGES, codes[i], PyNone).code]

(***************************************************************************)
(* Calls of resolve_ticker, as main makes one with the command line's      *)
(* ticker and --exchange.                                                  *)
(***************************************************************************)
MaxResolveCalls == 1  \* calls made with one pair of arguments

\* tickers: bare, suffixed, lower case, padded, prefixed, a suffix alone,
\* an unknown suffix, digits, and the suffix that extends another one
RawTickers ==
    {"TEVA", "TEVA.TA", "teva.ta", " MSFT ", "NYSE:MSFT", ".TA", "BRK.B",
     "7203", "A.TWO"}

\* --exchange: absent, empty, a code as list_exchanges prints it, a code in
\* lower case, and an unknown code
ExchangeCodes ==
    {PyNone, PyStr(""), PyStr("tlv"), PyStr("XYZ")}
    \cup {PyStr(list_exchanges[i]) : i \in 1..Len(list_exchanges)}

ResolveInputs == [raw_ticker : RawTickers, exchange_code : ExchangeCodes]

InitResolve ==
    /\ rt_args \in ResolveInputs
    /\ rt_calls = <<>>
    /\ PipelineIdle
    /\ ScorerIdle
    /\ MapIdle
    /\ AnalysisIdle

ResolveTicker ==
    /\ Len(rt_calls) < MaxResolveCalls
    /\ rt_calls' = Append(rt_calls,
                     resolve_ticker(rt_args.raw_ticker, rt_args.exchange_code))
    /\ UNCHANGED <<rt_args, pipeline_vars, scorer_vars, map_vars,
                   analysis_vars>>

NextResolve == ResolveTicker

SpecResolve == InitResolve /\ [][NextResolve]_vars

\* the exchange codes list_exchanges prints
ListedCodes == {list_exchanges[i] : i \in 1..Len(list_exchanges)}

\* C19: every exchange code listed by list_exchanges() is a supported
\* exchange: resolve_ticker called with that code, as listed, as
\* exchange_code raises no ValueError and returns a TickerInfo whose
\* exchange is that code's registry entry.
C19_ListedCodesResolve ==
    \A i \in 1..Len(rt_calls) :
        (/\ rt_args.exchange_code # PyNone
         /\ rt_args.exchange_code.str \in ListedCodes)
        => /\ ~IsExc(rt_calls[i])
           /\ rt_calls[i].exchange =
                 ItemsGet(EXCHANGES, rt_args.exchange_code.str, PyNone)

\* the known suffixes a ticker ends in, after a non-empty base
SuffixesOn(t) ==
    {s \in KNOWN_SUFFIXES :
        /\ Len(t) > Len(s)
        /\ SubSeq(t, Len(t) - Len(s) + 1, Len(t)) = s}

\* the ticker without the known suffix it ends in
WithoutSuffix(t) ==
    IF SuffixesOn(t) = {} THEN t
    ELSE LET s == CHOOSE s \in SuffixesOn(t) : TRUE
         IN  SubSeq(t, 1, Len(t) - Len(s))

\* C20: an explicit exchange_code takes priority over a suffix on the
\* ticker: for every ticker and every registered exchange code, a known
\* suffix on the ticker is stripped, base_ticker is the ticker without it
\* and yahoo_symbol is base_ticker followed by the given exchange's suffix;
\* without an exchange_code a ticker ending in a known suffix keeps it, and
\* a ticker without one resolves to itself with exchange None.  The ticker
\* is read as resolve_ticker normalizes it (stripped, exchange prefix
\* dropped, upper case).
C20_ExchangeCodePriority ==
    \A i \in 1..Len(rt_calls) :
        LET r == rt_calls[i]
            t == NormalizedTicker(rt_args.raw_ticker)
            c == rt_args.exchange_code
        IN  /\ (c # PyNone /\ c.str \in DictKeys(EXCHANGES)) =>
                  LET info == ItemsGet(EXCHANGES, c.str, PyNone)
                  IN  /\ ~IsExc(r)
                      /\ r.base_ticker = WithoutSuffix(t)
                      /\ r.yahoo_symbol = WithoutSuffix(t) \o info.suffix
                      /\ r.exchange = info
            /\ c = PyNone =>
                  /\ ~IsExc(r)
                  /\ r.yahoo_symbol = t
                  /\ r.base_ticker = WithoutSuffix(t)
                  /\ SuffixesOn(t) = {} => r.exchange = PyNone

\* the two keys of the examples, each carrying one of the two marks
Key_TA_Overall_unmarked == Chars("TA_Overall")
Key_Momentum == Chars("_Momentum")

\* a key carrying both aggregate marks: a leading "_" and a trailing
\* "Overall"
BothMarks(key) ==
    /\ Len(key) >= 7
    /\ key[1] = "_"
    /\ [j \in 1..7 |-> key[Len(key) - 7 + j]] = Chars("Overall")

\* the entries counted when exactly the keys with both marks are skipped
CountedEntries(d) == {j \in 1..Len(d) : ~BothMarks(d[j].key)}

CountedNet(d) ==
    Cardinality({j \in CountedEntries(d) : d[j].value[1] = Bullish})
    - Cardinality({j \in CountedEntries(d) : d[j].value[1] = Bearish})

\* C21: the Category Scorer treats an entry as aggregate exactly when its
\* key both starts with "_" and ends with "Overall"; an entry whose key
\* carries only one of the two marks ("TA_Overall", "_Momentum") is counted
\* as a leaf, in the numerator and in the denominator.
C21_AggregateMarks ==
    \A i \in 1..Len(sc_calls) :
        LET d == sc_calls[i].signals
        IN  /\ \A j \in 1..Len(d) :
                  d[j].key \in {Key_TA_Overall_unmarked, Key_Momentum}
                      => j \in CountedEntries(d)
            /\ \A j \in 1..Len(d) :
                  d[j].key = Key_TA_Overall => j \notin CountedEntries(d)
            /\ sc_calls[i].score =
                  IF CountedEntries(d) = {} THEN Lit_0_0
                  ELSE FDivInt(CountedNet(d), Cardinality(CountedEntries(d)))

\* C21 witness: a Bearish "TA_Overall", a Bearish "_Momentum" and a Bullish
\* "_TA_Overall" have been scored -1.0
C21_Witness ==
    \E i \in 1..Len(sc_calls) :
        LET d == sc_calls[i].signals
        IN  /\ Len(d) = 3
            /\ \E j \in 1..3 : d[j] = Item(Key_TA_Overall_unmarked, Bearish, "r")
            /\ \E j \in 1..3 : d[j] = Item(Key_Momentum, Bearish, "r")
            /\ \E j \in 1..3 : d[j] = Item(Key_TA_Overall, Bullish, "r")
            /\ sc_calls[i].score = FNeg(Lit_1_0)

(***************************************************************************)
(* main() end to end (main.py 130-175): the three collaborators are built  *)
(* from the fetched data, compute_all() runs on each in turn, the engine   *)
(* is built from the three results and decide() runs once.  an_obj holds   *)
(* the three instances, an_calls what the compute_all() calls returned.    *)
(***************************************************************************)
\* the data sets on which every check that can take the direction takes it
LeaningChoices(checks) ==
    {d \in BranchChoices(checks) :
        \E direction \in {Bullish, Bearish} :
            \A i \in 1..Len(checks) :
                direction \in checks[i].directions => d[i] = direction}

MainInputs ==
    [ta_engine : {NewTechnicalAnalysis(d) : d \in LeaningChoices(TAChecks)},
     fa_engine : {NewFundamentalAnalysis(d) : d \in LeaningChoices(FAChecks)},
     news_engine : {NewNewsAnalysis(d) : d \in [1..2 -> FetchOutcomes]}]

InitMain ==
    /\ an_obj \in MainInputs
    /\ an_calls = <<>>
    /\ results = [ta_result |-> <<>>, fa_result |-> <<>>, news_result |-> <<>>]
    /\ WEIGHTS = WEIGHTS_Initial
    /\ engine = [e \in Engines |-> NoEngine]
    /\ calls = <<>>
    /\ ScorerIdle
    /\ MapIdle
    /\ ResolveIdle

\* name = instance.compute_all(): r.returned is bound to name, the instance
\* is left as r.self
MainComputed(instance, name, r) ==
    /\ an_obj' = [an_obj EXCEPT ![instance] = r.self]
    /\ an_calls' = Append(an_calls, r.returned)
    /\ results' = [results EXCEPT ![name] = r.returned]
    /\ UNCHANGED <<WEIGHTS, engine, calls, scorer_vars, map_vars,
                   resolve_vars>>

\* ta_result = ta_engine.compute_all()
MainTechnical ==
    /\ Len(an_calls) = 0
    /\ MainComputed("ta_engine", "ta_result",
                    TechnicalAnalysis_compute_all(an_obj.ta_engine))

\* fa_result = fa_engine.compute_all()
MainFundamental ==
    /\ Len(an_calls) = 1
    /\ MainComputed("fa_engine", "fa_result",
                    FundamentalAnalysis_compute_all(an_obj.fa_engine))

\* news_result = news_engine.compute_all()
MainNews ==
    /\ Len(an_calls) = 2
    /\ MainComputed("news_engine", "news_result",
                    NewsAnalysis_compute_all(an_obj.news_engine))

\* engine = DecisionEngine(ta_result, fa_result, news_result)
MainConstruct ==
    /\ Len(an_calls) = 3
    /\ \A i \in 1..3 : ~IsExc(an_calls[i])
    /\ Construct("engine")

\* decision = engine.decide()
MainDecide ==
    /\ engine["engine"] # NoEngine
    /\ calls = <<>>
    /\ Decide("engine")

NextMain ==
    \/ MainTechnical
    \/ MainFundamental
    \/ MainNews
    \/ MainConstruct
    \/ MainDecide

SpecMain == InitMain /\ [][NextMain]_vars

\* the instance with no news entries at all
WithoutNews(self) == [self EXCEPT !.news = [signals |-> <<>>]]

ReportedBand(result) == map_score(result.scores["Weighted Score"])[1]

\* C23: in every Decision the reported recommendation is the threshold-table
\* classification of the reported Weighted Score, the composite rounded to
\* two decimals.
C23_ReportedScoreBand ==
    \A i \in 1..Len(calls) :
        ~IsExc(calls[i].result)
        => calls[i].result.recommendation = ReportedBand(calls[i].result)

\* C24: a second compute_all() on the same TechnicalAnalysis or
\* FundamentalAnalysis instance, its data unchanged, returns what the first
\* returned: the same signals, the same aggregate entry and the same
\* bullish, bearish and neutral counts.
C24_SecondComputeAll ==
    (an_obj # NoObject /\ an_obj.kind \in {"ta", "fa"} /\ Len(an_calls) = 2)
    => an_calls[2] = an_calls[1]

(***************************************************************************)
(* decide() as a function of its inputs: a first run on the results, then  *)
(* a run on results that differ from them in one leaf entry, whose         *)
(* direction is higher.                                                    *)
(***************************************************************************)
\* the directions above a direction in Bearish < Neutral < Bullish
Higher(direction) ==
    IF direction = Bearish THEN {Neutral, Bullish}
    ELSE IF direction = Neutral THEN {Bullish}
    ELSE {}

\* the results with the direction of leaf entry i of one category replaced
WithDirection(res, name, i, direction) ==
    [res EXCEPT ![name].signals[i].value[1] = direction]

\* every way to raise the direction of a single leaf entry
RaisedOnce(res) ==
    UNION {UNION {{WithDirection(res, name, i, direction) :
                      direction \in Higher(res[name].signals[i].value[1])} :
                  i \in LeafEntries(DictGet(res[name], "signals", <<>>))} :
           name \in DOMAIN res}

\* the engine's references followed in the results res
SelfIn(res, e) ==
    [ta |-> res[engine[e].ta], fa |-> res[engine[e].fa],
     news |-> res[engine[e].news]]

\* the run on the results as they are
DecideBefore ==
    /\ calls = <<>>
    /\ Decide("engine")

\* the run on the results with one leaf raised
DecideRaised ==
    /\ Len(calls) = 1
    /\ \E raised \in RaisedOnce(results) :
        /\ results' = raised
        /\ calls' = Append(calls, DecideCall("engine",
                        decide_locals(SelfIn(raised, "engine"), WEIGHTS)))
    /\ UNCHANGED <<WEIGHTS, engine, scorer_vars, map_vars, analysis_vars,
                 resolve_vars>>

NextRaise ==
    \/ DecideBefore
    \/ DecideRaised

SpecRaise == Init /\ [][NextRaise]_vars

\* the rank of a recommendation in STRONG SELL < SELL < HOLD < BUY < STRONG BUY
Rank(recommendation) ==
    CHOOSE n \in 1..5 :
        <<"STRONG SELL", "SELL", "HOLD", "BUY", "STRONG BUY">>[n]
            = recommendation

\* C25: raising the direction of a single leaf signal of one category, all
\* other entries unchanged, never moves the recommendation to a lower rank,
\* and never lowers the composite.
C25_Monotone ==
    Len(calls) = 2
    => /\ Rank(calls[2].locals.recommendation)
            >= Rank(calls[1].locals.recommendation)
       /\ FGe(calls[2].locals.weighted, calls[1].locals.weighted)

\* a raise of one fundamental leaf, the other categories as before, that
\* lifts the recommendation from SELL to BUY
C25_Witness ==
    /\ Len(calls) = 2
    /\ calls[1].locals.recommendation = "SELL"
    /\ calls[2].locals.recommendation = "BUY"
    /\ FGt(calls[2].locals.fa_score, calls[1].locals.fa_score)
    /\ calls[2].locals.ta_score = calls[1].locals.ta_score
    /\ calls[2].locals.news_score = calls[1].locals.news_score

(***************************************************************************)
(* decide() on the results and then on their mirror image.                 *)
(***************************************************************************)
\* Bullish and Bearish exchanged
Swapped(direction) ==
    IF direction = Bullish THEN Bearish
    ELSE IF direction = Bearish THEN Bullish
    ELSE direction

\* the results with Bullish and Bearish exchanged in every entry
Mirrored(res) ==
    [name \in DOMAIN res |->
        IF "signals" \in DOMAIN res[name]
        THEN [res[name] EXCEPT !.signals =
                 [i \in 1..Len(@) |->
                     [@[i] EXCEPT !.value[1] = Swapped(@)]]]
        ELSE res[name]]

\* the run on the mirrored results
DecideMirrored ==
    /\ Len(calls) = 1
    /\ results' = Mirrored(results)
    /\ calls' = Append(calls, DecideCall("engine",
                    decide_locals(SelfIn(Mirrored(results), "engine"),
                                  WEIGHTS)))
    /\ UNCHANGED <<WEIGHTS, engine, scorer_vars, map_vars, analysis_vars,
                 resolve_vars>>

NextMirror ==
    \/ DecideBefore
    \/ DecideMirrored

SpecMirror == Init /\ [][NextMirror]_vars

\* the recommendation on the other side of HOLD
MirrorLabel(recommendation) ==
    IF recommendation = "STRONG BUY" THEN "STRONG SELL"
    ELSE IF recommendation = "BUY" THEN "SELL"
    ELSE IF recommendation = "SELL" THEN "BUY"
    ELSE IF recommendation = "STRONG SELL" THEN "STRONG BUY"
    ELSE recommendation

\* y == -x, as Python compares floats
Negated(x, y) == FEq(y, FNeg(x))

\* C26: exchanging Bullish and Bearish in every entry of the three
\* SignalSets negates each category score and the composite, unrounded and
\* as reported, and turns the recommendation into its mirror image with the
\* same confidence label.
C26_MirrorSymmetry ==
    Len(calls) = 2
    => LET a == calls[1]
           b == calls[2]
       IN  /\ Negated(a.locals.ta_score, b.locals.ta_score)
           /\ Negated(a.locals.fa_score, b.locals.fa_score)
           /\ Negated(a.locals.news_score, b.locals.news_score)
           /\ Negated(a.locals.weighted, b.locals.weighted)
           /\ \A k \in DOMAIN a.result.scores :
                  Negated(a.result.scores[k], b.result.scores[k])
           /\ b.result.recommendation = MirrorLabel(a.result.recommendation)
           /\ b.result.confidence = a.result.confidence

\* a composite of -0.14999999999999997, a HOLD reported as -0.15, whose
\* mirror image is a HOLD reported as 0.15
C26_Witness ==
    /\ Len(calls) = 2
    /\ calls[1].result.recommendation = "HOLD"
    /\ calls[2].result.recommendation = "HOLD"
    /\ calls[1].result.scores["Weighted Score"] = FDivInt(-15, 100)
    /\ calls[2].result.scores["Weighted Score"] = FDivInt(15, 100)
    /\ results.fa_result.signals # <<>>

\* the direction of the aggregate entry a first compute_all() returned
AggregateOf(returned, kind) ==
    ItemsGet(returned.signals, AggregateKeyOf(kind),
             Signal(Neutral, ""))[1]

\* C27: after the first compute_all() of a fresh TechnicalAnalysis or
\* FundamentalAnalysis, a Bullish aggregate entry comes with a category
\* score above 0, a Bearish one with a category score below 0, and a
\* category score of 0 with a Neutral aggregate entry.
C27_AggregateAgrees ==
    (an_obj # NoObject /\ an_obj.kind \in {"ta", "fa"} /\ an_calls # <<>>)
    => LET overall == AggregateOf(an_calls[1], an_obj.kind)
           score   == category_score(an_calls[1].signals)
       IN  /\ overall = Bullish => FGt(score, Lit_0_0)
           /\ overall = Bearish => FLt(score, Lit_0_0)
           /\ FEq(score, Lit_0_0) => overall = Neutral

\* a first FundamentalAnalysis result with two Bearish signals against four
\* others, none of them Bullish: _FA_Overall is Bearish and the score is -1/3
C27_Witness ==
    /\ an_obj # NoObject
    /\ an_obj.kind = "fa"
    /\ Len(an_calls) = 1
    /\ Len(an_calls[1].signals) = 7
    /\ AggregateOf(an_calls[1], "fa") = Bearish
    /\ category_score(an_calls[1].signals) = FDivInt(-2, 6)

====
